---- MODULE Spec2Model ----
(***************************************************************************)
(* Faculty feedback rating calculator (Streamlit app, variants app.py,     *)
(* app3.py .. app7.py).  The model follows app7.py, the latest variant,    *)
(* and keeps the earlier variants' functions where they differ.            *)
(*                                                                         *)
(* Representation.                                                         *)
(*  - A column header or subject label is a sequence of one-character      *)
(*    strings, so that find / slicing / strip / split act on characters.   *)
(*  - A cell of a rating column and a categorical value is a string, used  *)
(*    only as a whole (dict lookup, isin).  NaN is the missing value.      *)
(*  - An optional result (None or a value v) is <<>> or <<v>>.             *)
(*  - A float is kept as the exact fraction <<numerator, denominator>> in  *)
(*    lowest terms; a rounded float as an integer number of its last       *)
(*    decimal digit.                                                       *)
(***************************************************************************)
EXTENDS Integers, Sequences, FiniteSets, TLC

VARIABLES
    call,                    \* pure-function harness: [fn, arg] of the call
    ret,                     \* its returned value
    pc,                      \* "call" before the function ran, "done" after
    df,                      \* the uploaded table, NoTable before an upload
    from_date, to_date,      \* date_input widgets (day numbers)
    selected_year_semesters, \* multiselect widgets: sets of strings
    selected_genders,
    selected_branches,
    selected_section_types,
    filtered_df,             \* rows of df that passed the mask, in order
    average_scores,          \* SubjectKey -> mean (fraction)
    subject_scores,          \* SubjectKey -> list of scores
    total_responses,         \* len(filtered_df)
    scores_data,             \* SubjectKey -> report row
    dist_df,                 \* SubjectKey -> score distribution shown
    view,                    \* what main() rendered last
    uploads,                 \* number of files uploaded so far in the session
    workers                  \* concurrent invocations: id -> local variables

pureVars == <<call, ret, pc>>
appVars == <<df, from_date, to_date, selected_year_semesters, selected_genders,
             selected_branches, selected_section_types, filtered_df,
             average_scores, subject_scores, total_responses, scores_data,
             dist_df, view, uploads, workers>>
vars == <<call, ret, pc, df, from_date, to_date, selected_year_semesters,
          selected_genders, selected_branches, selected_section_types,
          filtered_df, average_scores, subject_scores, total_responses,
          scores_data, dist_df, view, uploads, workers>>

-----------------------------------------------------------------------------
(* Values *)

\* pandas' missing value (NaN / None read from an empty spreadsheet cell)
NaN == "<NA>"

\* Python's None as the result of a function
None == <<>>

Some(v) == <<v>>

\* pd.isna(x) for a scalar cell
IsNa(x) == x = NaN

\* a missing label (NaN / None) handed to or returned by normalize_subject_name;
\* no header slice equals it, its one element being no character
NaNLabel == <<NaN>>

\* A character is a string of one character.  A character that a TLA+ string
\* cannot hold is written as the string of its code point, "U+2003".

\* the characters str.strip() and str.split() treat as whitespace (those
\* str.isspace() is true of)
Whitespace ==
    {"\t", "\n", "", "\f", "\r", "", "", "", "", " ", "", " ", " ",
     "U+2000", "U+2001", "U+2002", "U+2003", "U+2004", "U+2005", "U+2006",
     "U+2007", "U+2008", "U+2009", "U+200A", "U+2028", "U+2029", "U+202F",
     "U+205F", "U+3000"}

\* str.upper() of every character it changes (CPython 3.11, Unicode 14.0): the
\* character, followed by the characters of its upper-case form
UpperTable ==
    {<<"a", "A">>, <<"b", "B">>, <<"c", "C">>, <<"d", "D">>, <<"e", "E">>,
     <<"f", "F">>, <<"g", "G">>, <<"h", "H">>, <<"i", "I">>, <<"j", "J">>,
     <<"k", "K">>, <<"l", "L">>, <<"m", "M">>, <<"n", "N">>, <<"o", "O">>,
     <<"p", "P">>, <<"q", "Q">>, <<"r", "R">>, <<"s", "S">>, <<"t", "T">>,
     <<"u", "U">>, <<"v", "V">>, <<"w", "W">>, <<"x", "X">>, <<"y", "Y">>,
     <<"z", "Z">>, <<"µ", "Μ">>, <<"ß", "S", "S">>, <<"à", "À">>,
     <<"á", "Á">>, <<"â", "Â">>, <<"ã", "Ã">>, <<"ä", "Ä">>, <<"å", "Å">>,
     <<"æ", "Æ">>, <<"ç", "Ç">>, <<"è", "È">>, <<"é", "É">>, <<"ê", "Ê">>,
     <<"ë", "Ë">>, <<"ì", "Ì">>, <<"í", "Í">>, <<"î", "Î">>, <<"ï", "Ï">>,
     <<"ð", "Ð">>, <<"ñ", "Ñ">>, <<"ò", "Ò">>, <<"ó", "Ó">>, <<"ô", "Ô">>,
     <<"õ", "Õ">>, <<"ö", "Ö">>, <<"ø", "Ø">>, <<"ù", "Ù">>, <<"ú", "Ú">>,
     <<"û", "Û">>, <<"ü", "Ü">>, <<"ý", "Ý">>, <<"þ", "Þ">>,
     <<"ÿ", "U+0178">>, <<"U+0101", "U+0100">>, <<"U+0103", "U+0102">>,
     <<"U+0105", "U+0104">>, <<"U+0107", "U+0106">>, <<"U+0109", "U+0108">>,
     <<"U+010B", "U+010A">>, <<"U+010D", "U+010C">>, <<"U+010F", "U+010E">>,
     <<"U+0111", "U+0110">>, <<"U+0113", "U+0112">>, <<"U+0115", "U+0114">>,
     <<"U+0117", "U+0116">>, <<"U+0119", "U+0118">>, <<"U+011B", "U+011A">>,
     <<"U+011D", "U+011C">>, <<"U+011F", "U+011E">>, <<"U+0121", "U+0120">>,
     <<"U+0123", "U+0122">>, <<"U+0125", "U+0124">>, <<"U+0127", "U+0126">>,
     <<"U+0129", "U+0128">>, <<"U+012B", "U+012A">>, <<"U+012D", "U+012C">>,
     <<"U+012F", "U+012E">>, <<"U+0131", "I">>, <<"U+0133", "U+0132">>,
     <<"U+0135", "U+0134">>, <<"U+0137", "U+0136">>, <<"U+013A", "U+0139">>,
     <<"U+013C", "U+013B">>, <<"U+013E", "U+013D">>, <<"U+0140", "U+013F">>,
     <<"U+0142", "U+0141">>, <<"U+0144", "U+0143">>, <<"U+0146", "U+0145">>,
     <<"U+0148", "U+0147">>, <<"U+0149", "ʼ", "N">>, <<"U+014B", "U+014A">>,
     <<"U+014D", "U+014C">>, <<"U+014F", "U+014E">>, <<"U+0151", "U+0150">>,
     <<"U+0153", "U+0152">>, <<"U+0155", "U+0154">>, <<"U+0157", "U+0156">>,
     <<"U+0159", "U+0158">>, <<"U+015B", "U+015A">>, <<"U+015D", "U+015C">>,
     <<"U+015F", "U+015E">>, <<"U+0161", "U+0160">>, <<"U+0163", "U+0162">>,
     <<"U+0165", "U+0164">>, <<"U+0167", "U+0166">>, <<"U+0169", "U+0168">>,
     <<"U+016B", "U+016A">>, <<"U+016D", "U+016C">>, <<"U+016F", "U+016E">>,
     <<"U+0171", "U+0170">>, <<"U+0173", "U+0172">>, <<"U+0175", "U+0174">>,
     <<"U+0177", "U+0176">>, <<"U+017A", "U+0179">>, <<"U+017C", "U+017B">>,
     <<"U+017E", "U+017D">>, <<"U+017F", "S">>, <<"ƀ", "U+0243">>,
     <<"ƃ", "Ƃ">>, <<"ƅ", "Ƅ">>, <<"ƈ", "Ƈ">>, <<"ƌ", "Ƌ">>, <<"ƒ", "Ƒ">>,
     <<"ƕ", "Ƕ">>, <<"ƙ", "Ƙ">>, <<"ƚ", "U+023D">>, <<"ƞ", "U+0220">>,
     <<"ơ", "Ơ">>, <<"ƣ", "Ƣ">>, <<"ƥ", "Ƥ">>, <<"ƨ", "Ƨ">>, <<"ƭ", "Ƭ">>,
     <<"ư", "Ư">>, <<"ƴ", "Ƴ">>, <<"ƶ", "Ƶ">>, <<"ƹ", "Ƹ">>, <<"ƽ", "Ƽ">>,
     <<"ƿ", "Ƿ">>, <<"ǅ", "Ǆ">>, <<"ǆ", "Ǆ">>, <<"ǈ", "Ǉ">>, <<"ǉ", "Ǉ">>,
     <<"ǋ", "Ǌ">>, <<"ǌ", "Ǌ">>, <<"ǎ", "Ǎ">>, <<"ǐ", "Ǐ">>, <<"ǒ", "Ǒ">>,
     <<"ǔ", "Ǔ">>, <<"ǖ", "Ǖ">>, <<"ǘ", "Ǘ">>, <<"ǚ", "Ǚ">>, <<"ǜ", "Ǜ">>,
     <<"ǝ", "Ǝ">>, <<"ǟ", "Ǟ">>, <<"ǡ", "Ǡ">>, <<"ǣ", "Ǣ">>, <<"ǥ", "Ǥ">>,
     <<"ǧ", "Ǧ">>, <<"ǩ", "Ǩ">>, <<"ǫ", "Ǫ">>, <<"ǭ", "Ǭ">>, <<"ǯ", "Ǯ">>,
     <<"ǰ", "J", "U+030C">>, <<"ǲ", "Ǳ">>, <<"ǳ", "Ǳ">>, <<"ǵ", "Ǵ">>,
     <<"ǹ", "Ǹ">>, <<"ǻ", "Ǻ">>, <<"ǽ", "Ǽ">>, <<"ǿ", "Ǿ">>,
     <<"U+0201", "U+0200">>, <<"U+0203", "U+0202">>, <<"U+0205", "U+0204">>,
     <<"U+0207", "U+0206">>, <<"U+0209", "U+0208">>, <<"U+020B", "U+020A">>,
     <<"U+020D", "U+020C">>, <<"U+020F", "U+020E">>, <<"U+0211", "U+0210">>,
     <<"U+0213", "U+0212">>, <<"U+0215", "U+0214">>, <<"U+0217", "U+0216">>,
     <<"U+0219", "U+0218">>, <<"U+021B", "U+021A">>, <<"U+021D", "U+021C">>,
     <<"U+021F", "U+021E">>, <<"U+0223", "U+0222">>, <<"U+0225", "U+0224">>,
     <<"U+0227", "U+0226">>, <<"U+0229", "U+0228">>, <<"U+022B", "U+022A">>,
     <<"U+022D", "U+022C">>, <<"U+022F", "U+022E">>, <<"U+0231", "U+0230">>,
     <<"U+0233", "U+0232">>, <<"U+023C", "U+023B">>, <<"U+023F", "U+2C7E">>,
     <<"U+0240", "U+2C7F">>, <<"U+0242", "U+0241">>, <<"U+0247", "U+0246">>,
     <<"U+0249", "U+0248">>, <<"U+024B", "U+024A">>, <<"U+024D", "U+024C">>,
     <<"U+024F", "U+024E">>, <<"U+0250", "U+2C6F">>, <<"U+0251", "U+2C6D">>,
     <<"U+0252", "U+2C70">>, <<"U+0253", "Ɓ">>, <<"U+0254", "Ɔ">>,
     <<"U+0256", "Ɖ">>, <<"U+0257", "Ɗ">>, <<"U+0259", "Ə">>,
     <<"U+025B", "Ɛ">>, <<"U+025C", "Ɜ">>, <<"U+0260", "Ɠ">>,
     <<"U+0261", "Ɡ">>, <<"U+0263", "Ɣ">>, <<"U+0265", "Ɥ">>,
     <<"U+0266", "Ɦ">>, <<"U+0268", "Ɨ">>, <<"U+0269", "Ɩ">>,
     <<"U+026A", "Ɪ">>, <<"U+026B", "U+2C62">>, <<"U+026C", "Ɬ">>,
     <<"U+026F", "Ɯ">>, <<"U+0271", "U+2C6E">>, <<"U+0272", "Ɲ">>,
     <<"U+0275", "Ɵ">>, <<"U+027D", "U+2C64">>, <<"ʀ", "Ʀ">>, <<"ʂ", "Ʂ">>,
     <<"ʃ", "Ʃ">>, <<"ʇ", "Ʇ">>, <<"ʈ", "Ʈ">>, <<"ʉ", "U+0244">>,
     <<"ʊ", "Ʊ">>, <<"ʋ", "Ʋ">>, <<"ʌ", "U+0245">>, <<"ʒ", "Ʒ">>,
     <<"ʝ", "Ʝ">>, <<"ʞ", "Ʞ">>, <<"U+0345", "Ι">>, <<"U+0371", "U+0370">>,
     <<"U+0373", "U+0372">>, <<"U+0377", "U+0376">>, <<"U+037B", "Ͻ">>,
     <<"U+037C", "Ͼ">>, <<"U+037D", "Ͽ">>, <<"ΐ", "Ι", "U+0308", "U+0301">>,
     <<"ά", "Ά">>, <<"έ", "Έ">>, <<"ή", "Ή">>, <<"ί", "Ί">>,
     <<"ΰ", "Υ", "U+0308", "U+0301">>, <<"α", "Α">>, <<"β", "Β">>,
     <<"γ", "Γ">>, <<"δ", "Δ">>, <<"ε", "Ε">>, <<"ζ", "Ζ">>, <<"η", "Η">>,
     <<"θ", "Θ">>, <<"ι", "Ι">>, <<"κ", "Κ">>, <<"λ", "Λ">>, <<"μ", "Μ">>,
     <<"ν", "Ν">>, <<"ξ", "Ξ">>, <<"ο", "Ο">>, <<"π", "Π">>, <<"ρ", "Ρ">>,
     <<"ς", "Σ">>, <<"σ", "Σ">>, <<"τ", "Τ">>, <<"υ", "Υ">>, <<"φ", "Φ">>,
     <<"χ", "Χ">>, <<"ψ", "Ψ">>, <<"ω", "Ω">>, <<"ϊ", "Ϊ">>, <<"ϋ", "Ϋ">>,
     <<"ό", "Ό">>, <<"ύ", "Ύ">>, <<"ώ", "Ώ">>, <<"ϐ", "Β">>, <<"ϑ", "Θ">>,
     <<"ϕ", "Φ">>, <<"ϖ", "Π">>, <<"ϗ", "Ϗ">>, <<"ϙ", "Ϙ">>, <<"ϛ", "Ϛ">>,
     <<"ϝ", "Ϝ">>, <<"ϟ", "Ϟ">>, <<"ϡ", "Ϡ">>, <<"ϣ", "Ϣ">>, <<"ϥ", "Ϥ">>,
     <<"ϧ", "Ϧ">>, <<"ϩ", "Ϩ">>, <<"ϫ", "Ϫ">>, <<"ϭ", "Ϭ">>, <<"ϯ", "Ϯ">>,
     <<"ϰ", "Κ">>, <<"ϱ", "Ρ">>, <<"ϲ", "Ϲ">>, <<"ϳ", "U+037F">>,
     <<"ϵ", "Ε">>, <<"ϸ", "Ϸ">>, <<"ϻ", "Ϻ">>, <<"U+0430", "U+0410">>,
     <<"U+0431", "U+0411">>, <<"U+0432", "U+0412">>, <<"U+0433", "U+0413">>,
     <<"U+0434", "U+0414">>, <<"U+0435", "U+0415">>, <<"U+0436", "U+0416">>,
     <<"U+0437", "U+0417">>, <<"U+0438", "U+0418">>, <<"U+0439", "U+0419">>,
     <<"U+043A", "U+041A">>, <<"U+043B", "U+041B">>, <<"U+043C", "U+041C">>,
     <<"U+043D", "U+041D">>, <<"U+043E", "U+041E">>, <<"U+043F", "U+041F">>,
     <<"U+0440", "U+0420">>, <<"U+0441", "U+0421">>, <<"U+0442", "U+0422">>,
     <<"U+0443", "U+0423">>, <<"U+0444", "U+0424">>, <<"U+0445", "U+0425">>,
     <<"U+0446", "U+0426">>, <<"U+0447", "U+0427">>, <<"U+0448", "U+0428">>,
     <<"U+0449", "U+0429">>, <<"U+044A", "U+042A">>, <<"U+044B", "U+042B">>,
     <<"U+044C", "U+042C">>, <<"U+044D", "U+042D">>, <<"U+044E", "U+042E">>,
     <<"U+044F", "U+042F">>, <<"U+0450", "U+0400">>, <<"U+0451", "U+0401">>,
     <<"U+0452", "U+0402">>, <<"U+0453", "U+0403">>, <<"U+0454", "U+0404">>,
     <<"U+0455", "U+0405">>, <<"U+0456", "U+0406">>, <<"U+0457", "U+0407">>,
     <<"U+0458", "U+0408">>, <<"U+0459", "U+0409">>, <<"U+045A", "U+040A">>,
     <<"U+045B", "U+040B">>, <<"U+045C", "U+040C">>, <<"U+045D", "U+040D">>,
     <<"U+045E", "U+040E">>, <<"U+045F", "U+040F">>, <<"U+0461", "U+0460">>,
     <<"U+0463", "U+0462">>, <<"U+0465", "U+0464">>, <<"U+0467", "U+0466">>,
     <<"U+0469", "U+0468">>, <<"U+046B", "U+046A">>, <<"U+046D", "U+046C">>,
     <<"U+046F", "U+046E">>, <<"U+0471", "U+0470">>, <<"U+0473", "U+0472">>,
     <<"U+0475", "U+0474">>, <<"U+0477", "U+0476">>, <<"U+0479", "U+0478">>,
     <<"U+047B", "U+047A">>, <<"U+047D", "U+047C">>, <<"U+047F", "U+047E">>,
     <<"ҁ", "Ҁ">>, <<"ҋ", "Ҋ">>, <<"ҍ", "Ҍ">>, <<"ҏ", "Ҏ">>, <<"ґ", "Ґ">>,
     <<"ғ", "Ғ">>, <<"ҕ", "Ҕ">>, <<"җ", "Җ">>, <<"ҙ", "Ҙ">>, <<"қ", "Қ">>,
     <<"ҝ", "Ҝ">>, <<"ҟ", "Ҟ">>, <<"ҡ", "Ҡ">>, <<"ң", "Ң">>, <<"ҥ", "Ҥ">>,
     <<"ҧ", "Ҧ">>, <<"ҩ", "Ҩ">>, <<"ҫ", "Ҫ">>, <<"ҭ", "Ҭ">>, <<"ү", "Ү">>,
     <<"ұ", "Ұ">>, <<"ҳ", "Ҳ">>, <<"ҵ", "Ҵ">>, <<"ҷ", "Ҷ">>, <<"ҹ", "Ҹ">>,
     <<"һ", "Һ">>, <<"ҽ", "Ҽ">>, <<"ҿ", "Ҿ">>, <<"ӂ", "Ӂ">>, <<"ӄ", "Ӄ">>,
     <<"ӆ", "Ӆ">>, <<"ӈ", "Ӈ">>, <<"ӊ", "Ӊ">>, <<"ӌ", "Ӌ">>, <<"ӎ", "Ӎ">>,
     <<"ӏ", "Ӏ">>, <<"ӑ", "Ӑ">>, <<"ӓ", "Ӓ">>, <<"ӕ", "Ӕ">>, <<"ӗ", "Ӗ">>,
     <<"ә", "Ә">>, <<"ӛ", "Ӛ">>, <<"ӝ", "Ӝ">>, <<"ӟ", "Ӟ">>, <<"ӡ", "Ӡ">>,
     <<"ӣ", "Ӣ">>, <<"ӥ", "Ӥ">>, <<"ӧ", "Ӧ">>, <<"ө", "Ө">>, <<"ӫ", "Ӫ">>,
     <<"ӭ", "Ӭ">>, <<"ӯ", "Ӯ">>, <<"ӱ", "Ӱ">>, <<"ӳ", "Ӳ">>, <<"ӵ", "Ӵ">>,
     <<"ӷ", "Ӷ">>, <<"ӹ", "Ӹ">>, <<"ӻ", "Ӻ">>, <<"ӽ", "Ӽ">>, <<"ӿ", "Ӿ">>,
     <<"U+0501", "U+0500">>, <<"U+0503", "U+0502">>, <<"U+0505", "U+0504">>,
     <<"U+0507", "U+0506">>, <<"U+0509", "U+0508">>, <<"U+050B", "U+050A">>,
     <<"U+050D", "U+050C">>, <<"U+050F", "U+050E">>, <<"U+0511", "U+0510">>,
     <<"U+0513", "U+0512">>, <<"U+0515", "U+0514">>, <<"U+0517", "U+0516">>,
     <<"U+0519", "U+0518">>, <<"U+051B", "U+051A">>, <<"U+051D", "U+051C">>,
     <<"U+051F", "U+051E">>, <<"U+0521", "U+0520">>, <<"U+0523", "U+0522">>,
     <<"U+0525", "U+0524">>, <<"U+0527", "U+0526">>, <<"U+0529", "U+0528">>,
     <<"U+052B", "U+052A">>, <<"U+052D", "U+052C">>, <<"U+052F", "U+052E">>,
     <<"U+0561", "U+0531">>, <<"U+0562", "U+0532">>, <<"U+0563", "U+0533">>,
     <<"U+0564", "U+0534">>, <<"U+0565", "U+0535">>, <<"U+0566", "U+0536">>,
     <<"U+0567", "U+0537">>, <<"U+0568", "U+0538">>, <<"U+0569", "U+0539">>,
     <<"U+056A", "U+053A">>, <<"U+056B", "U+053B">>, <<"U+056C", "U+053C">>,
     <<"U+056D", "U+053D">>, <<"U+056E", "U+053E">>, <<"U+056F", "U+053F">>,
     <<"U+0570", "U+0540">>, <<"U+0571", "U+0541">>, <<"U+0572", "U+0542">>,
     <<"U+0573", "U+0543">>, <<"U+0574", "U+0544">>, <<"U+0575", "U+0545">>,
     <<"U+0576", "U+0546">>, <<"U+0577", "U+0547">>, <<"U+0578", "U+0548">>,
     <<"U+0579", "U+0549">>, <<"U+057A", "U+054A">>, <<"U+057B", "U+054B">>,
     <<"U+057C", "U+054C">>, <<"U+057D", "U+054D">>, <<"U+057E", "U+054E">>,
     <<"U+057F", "U+054F">>, <<"ր", "U+0550">>, <<"ց", "U+0551">>,
     <<"ւ", "U+0552">>, <<"փ", "U+0553">>, <<"ք", "U+0554">>,
     <<"օ", "U+0555">>, <<"ֆ", "U+0556">>, <<"և", "U+0535", "U+0552">>,
     <<"ა", "Ა">>, <<"ბ", "Ბ">>, <<"გ", "Გ">>, <<"დ", "Დ">>, <<"ე", "Ე">>,
     <<"ვ", "Ვ">>, <<"ზ", "Ზ">>, <<"თ", "Თ">>, <<"ი", "Ი">>, <<"კ", "Კ">>,
     <<"ლ", "Ლ">>, <<"მ", "Მ">>, <<"ნ", "Ნ">>, <<"ო", "Ო">>, <<"პ", "Პ">>,
     <<"ჟ", "Ჟ">>, <<"რ", "Რ">>, <<"ს", "Ს">>, <<"ტ", "Ტ">>, <<"უ", "Უ">>,
     <<"ფ", "Ფ">>, <<"ქ", "Ქ">>, <<"ღ", "Ღ">>, <<"ყ", "Ყ">>, <<"შ", "Შ">>,
     <<"ჩ", "Ჩ">>, <<"ც", "Ც">>, <<"ძ", "Ძ">>, <<"წ", "Წ">>, <<"ჭ", "Ჭ">>,
     <<"ხ", "Ხ">>, <<"ჯ", "Ჯ">>, <<"ჰ", "Ჰ">>, <<"ჱ", "Ჱ">>, <<"ჲ", "Ჲ">>,
     <<"ჳ", "Ჳ">>, <<"ჴ", "Ჴ">>, <<"ჵ", "Ჵ">>, <<"ჶ", "Ჶ">>, <<"ჷ", "Ჷ">>,
     <<"ჸ", "Ჸ">>, <<"ჹ", "Ჹ">>, <<"ჺ", "Ჺ">>, <<"ჽ", "Ჽ">>, <<"ჾ", "Ჾ">>,
     <<"ჿ", "Ჿ">>, <<"ᏸ", "Ᏸ">>, <<"ᏹ", "Ᏹ">>, <<"ᏺ", "Ᏺ">>, <<"ᏻ", "Ᏻ">>,
     <<"ᏼ", "Ᏼ">>, <<"ᏽ", "Ᏽ">>, <<"ᲀ", "U+0412">>, <<"ᲁ", "U+0414">>,
     <<"ᲂ", "U+041E">>, <<"ᲃ", "U+0421">>, <<"ᲄ", "U+0422">>,
     <<"ᲅ", "U+0422">>, <<"ᲆ", "U+042A">>, <<"ᲇ", "U+0462">>,
     <<"ᲈ", "U+A64A">>, <<"U+1D79", "U+A77D">>, <<"U+1D7D", "U+2C63">>,
     <<"ᶎ", "Ᶎ">>, <<"U+1E01", "U+1E00">>, <<"U+1E03", "U+1E02">>,
     <<"U+1E05", "U+1E04">>, <<"U+1E07", "U+1E06">>, <<"U+1E09", "U+1E08">>,
     <<"U+1E0B", "U+1E0A">>, <<"U+1E0D", "U+1E0C">>, <<"U+1E0F", "U+1E0E">>,
     <<"U+1E11", "U+1E10">>, <<"U+1E13", "U+1E12">>, <<"U+1E15", "U+1E14">>,
     <<"U+1E17", "U+1E16">>, <<"U+1E19", "U+1E18">>, <<"U+1E1B", "U+1E1A">>,
     <<"U+1E1D", "U+1E1C">>, <<"U+1E1F", "U+1E1E">>, <<"U+1E21", "U+1E20">>,
     <<"U+1E23", "U+1E22">>, <<"U+1E25", "U+1E24">>, <<"U+1E27", "U+1E26">>,
     <<"U+1E29", "U+1E28">>, <<"U+1E2B", "U+1E2A">>, <<"U+1E2D", "U+1E2C">>,
     <<"U+1E2F", "U+1E2E">>, <<"U+1E31", "U+1E30">>, <<"U+1E33", "U+1E32">>,
     <<"U+1E35", "U+1E34">>, <<"U+1E37", "U+1E36">>, <<"U+1E39", "U+1E38">>,
     <<"U+1E3B", "U+1E3A">>, <<"U+1E3D", "U+1E3C">>, <<"U+1E3F", "U+1E3E">>,
     <<"U+1E41", "U+1E40">>, <<"U+1E43", "U+1E42">>, <<"U+1E45", "U+1E44">>,
     <<"U+1E47", "U+1E46">>, <<"U+1E49", "U+1E48">>, <<"U+1E4B", "U+1E4A">>,
     <<"U+1E4D", "U+1E4C">>, <<"U+1E4F", "U+1E4E">>, <<"U+1E51", "U+1E50">>,
     <<"U+1E53", "U+1E52">>, <<"U+1E55", "U+1E54">>, <<"U+1E57", "U+1E56">>,
     <<"U+1E59", "U+1E58">>, <<"U+1E5B", "U+1E5A">>, <<"U+1E5D", "U+1E5C">>,
     <<"U+1E5F", "U+1E5E">>, <<"U+1E61", "U+1E60">>, <<"U+1E63", "U+1E62">>,
     <<"U+1E65", "U+1E64">>, <<"U+1E67", "U+1E66">>, <<"U+1E69", "U+1E68">>,
     <<"U+1E6B", "U+1E6A">>, <<"U+1E6D", "U+1E6C">>, <<"U+1E6F", "U+1E6E">>,
     <<"U+1E71", "U+1E70">>, <<"U+1E73", "U+1E72">>, <<"U+1E75", "U+1E74">>,
     <<"U+1E77", "U+1E76">>, <<"U+1E79", "U+1E78">>, <<"U+1E7B", "U+1E7A">>,
     <<"U+1E7D", "U+1E7C">>, <<"U+1E7F", "U+1E7E">>, <<"ẁ", "Ẁ">>,
     <<"ẃ", "Ẃ">>, <<"ẅ", "Ẅ">>, <<"ẇ", "Ẇ">>, <<"ẉ", "Ẉ">>, <<"ẋ", "Ẋ">>,
     <<"ẍ", "Ẍ">>, <<"ẏ", "Ẏ">>, <<"ẑ", "Ẑ">>, <<"ẓ", "Ẓ">>, <<"ẕ", "Ẕ">>,
     <<"ẖ", "H", "U+0331">>, <<"ẗ", "T", "U+0308">>, <<"ẘ", "W", "U+030A">>,
     <<"ẙ", "Y", "U+030A">>, <<"ẚ", "A", "ʾ">>, <<"ẛ", "U+1E60">>,
     <<"ạ", "Ạ">>, <<"ả", "Ả">>, <<"ấ", "Ấ">>, <<"ầ", "Ầ">>, <<"ẩ", "Ẩ">>,
     <<"ẫ", "Ẫ">>, <<"ậ", "Ậ">>, <<"ắ", "Ắ">>, <<"ằ", "Ằ">>, <<"ẳ", "Ẳ">>,
     <<"ẵ", "Ẵ">>, <<"ặ", "Ặ">>, <<"ẹ", "Ẹ">>, <<"ẻ", "Ẻ">>, <<"ẽ", "Ẽ">>,
     <<"ế", "Ế">>, <<"ề", "Ề">>, <<"ể", "Ể">>, <<"ễ", "Ễ">>, <<"ệ", "Ệ">>,
     <<"ỉ", "Ỉ">>, <<"ị", "Ị">>, <<"ọ", "Ọ">>, <<"ỏ", "Ỏ">>, <<"ố", "Ố">>,
     <<"ồ", "Ồ">>, <<"ổ", "Ổ">>, <<"ỗ", "Ỗ">>, <<"ộ", "Ộ">>, <<"ớ", "Ớ">>,
     <<"ờ", "Ờ">>, <<"ở", "Ở">>, <<"ỡ", "Ỡ">>, <<"ợ", "Ợ">>, <<"ụ", "Ụ">>,
     <<"ủ", "Ủ">>, <<"ứ", "Ứ">>, <<"ừ", "Ừ">>, <<"ử", "Ử">>, <<"ữ", "Ữ">>,
     <<"ự", "Ự">>, <<"ỳ", "Ỳ">>, <<"ỵ", "Ỵ">>, <<"ỷ", "Ỷ">>, <<"ỹ", "Ỹ">>,
     <<"ỻ", "Ỻ">>, <<"ỽ", "Ỽ">>, <<"ỿ", "Ỿ">>, <<"U+1F00", "U+1F08">>,
     <<"U+1F01", "U+1F09">>, <<"U+1F02", "U+1F0A">>, <<"U+1F03", "U+1F0B">>,
     <<"U+1F04", "U+1F0C">>, <<"U+1F05", "U+1F0D">>, <<"U+1F06", "U+1F0E">>,
     <<"U+1F07", "U+1F0F">>, <<"U+1F10", "U+1F18">>, <<"U+1F11", "U+1F19">>,
     <<"U+1F12", "U+1F1A">>, <<"U+1F13", "U+1F1B">>, <<"U+1F14", "U+1F1C">>,
     <<"U+1F15", "U+1F1D">>, <<"U+1F20", "U+1F28">>, <<"U+1F21", "U+1F29">>,
     <<"U+1F22", "U+1F2A">>, <<"U+1F23", "U+1F2B">>, <<"U+1F24", "U+1F2C">>,
     <<"U+1F25", "U+1F2D">>, <<"U+1F26", "U+1F2E">>, <<"U+1F27", "U+1F2F">>,
     <<"U+1F30", "U+1F38">>, <<"U+1F31", "U+1F39">>, <<"U+1F32", "U+1F3A">>,
     <<"U+1F33", "U+1F3B">>, <<"U+1F34", "U+1F3C">>, <<"U+1F35", "U+1F3D">>,
     <<"U+1F36", "U+1F3E">>, <<"U+1F37", "U+1F3F">>, <<"U+1F40", "U+1F48">>,
     <<"U+1F41", "U+1F49">>, <<"U+1F42", "U+1F4A">>, <<"U+1F43", "U+1F4B">>,
     <<"U+1F44", "U+1F4C">>, <<"U+1F45", "U+1F4D">>,
     <<"U+1F50", "Υ", "U+0313">>, <<"U+1F51", "U+1F59">>,
     <<"U+1F52", "Υ", "U+0313", "U+0300">>, <<"U+1F53", "U+1F5B">>,
     <<"U+1F54", "Υ", "U+0313", "U+0301">>, <<"U+1F55", "U+1F5D">>,
     <<"U+1F56", "Υ", "U+0313", "U+0342">>, <<"U+1F57", "U+1F5F">>,
     <<"U+1F60", "U+1F68">>, <<"U+1F61", "U+1F69">>, <<"U+1F62", "U+1F6A">>,
     <<"U+1F63", "U+1F6B">>, <<"U+1F64", "U+1F6C">>, <<"U+1F65", "U+1F6D">>,
     <<"U+1F66", "U+1F6E">>, <<"U+1F67", "U+1F6F">>, <<"U+1F70", "Ὰ">>,
     <<"U+1F71", "Ά">>, <<"U+1F72", "Ὲ">>, <<"U+1F73", "Έ">>,
     <<"U+1F74", "Ὴ">>, <<"U+1F75", "Ή">>, <<"U+1F76", "Ὶ">>,
     <<"U+1F77", "Ί">>, <<"U+1F78", "Ὸ">>, <<"U+1F79", "Ό">>,
     <<"U+1F7A", "Ὺ">>, <<"U+1F7B", "Ύ">>, <<"U+1F7C", "Ὼ">>,
     <<"U+1F7D", "Ώ">>, <<"ᾀ", "U+1F08", "Ι">>, <<"ᾁ", "U+1F09", "Ι">>,
     <<"ᾂ", "U+1F0A", "Ι">>, <<"ᾃ", "U+1F0B", "Ι">>, <<"ᾄ", "U+1F0C", "Ι">>,
     <<"ᾅ", "U+1F0D", "Ι">>, <<"ᾆ", "U+1F0E", "Ι">>, <<"ᾇ", "U+1F0F", "Ι">>,
     <<"ᾈ", "U+1F08", "Ι">>, <<"ᾉ", "U+1F09", "Ι">>, <<"ᾊ", "U+1F0A", "Ι">>,
     <<"ᾋ", "U+1F0B", "Ι">>, <<"ᾌ", "U+1F0C", "Ι">>, <<"ᾍ", "U+1F0D", "Ι">>,
     <<"ᾎ", "U+1F0E", "Ι">>, <<"ᾏ", "U+1F0F", "Ι">>, <<"ᾐ", "U+1F28", "Ι">>,
     <<"ᾑ", "U+1F29", "Ι">>, <<"ᾒ", "U+1F2A", "Ι">>, <<"ᾓ", "U+1F2B", "Ι">>,
     <<"ᾔ", "U+1F2C", "Ι">>, <<"ᾕ", "U+1F2D", "Ι">>, <<"ᾖ", "U+1F2E", "Ι">>,
     <<"ᾗ", "U+1F2F", "Ι">>, <<"ᾘ", "U+1F28", "Ι">>, <<"ᾙ", "U+1F29", "Ι">>,
     <<"ᾚ", "U+1F2A", "Ι">>, <<"ᾛ", "U+1F2B", "Ι">>, <<"ᾜ", "U+1F2C", "Ι">>,
     <<"ᾝ", "U+1F2D", "Ι">>, <<"ᾞ", "U+1F2E", "Ι">>, <<"ᾟ", "U+1F2F", "Ι">>,
     <<"ᾠ", "U+1F68", "Ι">>, <<"ᾡ", "U+1F69", "Ι">>, <<"ᾢ", "U+1F6A", "Ι">>,
     <<"ᾣ", "U+1F6B", "Ι">>, <<"ᾤ", "U+1F6C", "Ι">>, <<"ᾥ", "U+1F6D", "Ι">>,
     <<"ᾦ", "U+1F6E", "Ι">>, <<"ᾧ", "U+1F6F", "Ι">>, <<"ᾨ", "U+1F68", "Ι">>,
     <<"ᾩ", "U+1F69", "Ι">>, <<"ᾪ", "U+1F6A", "Ι">>, <<"ᾫ", "U+1F6B", "Ι">>,
     <<"ᾬ", "U+1F6C", "Ι">>, <<"ᾭ", "U+1F6D", "Ι">>, <<"ᾮ", "U+1F6E", "Ι">>,
     <<"ᾯ", "U+1F6F", "Ι">>, <<"ᾰ", "Ᾰ">>, <<"ᾱ", "Ᾱ">>, <<"ᾲ", "Ὰ", "Ι">>,
     <<"ᾳ", "Α", "Ι">>, <<"ᾴ", "Ά", "Ι">>, <<"ᾶ", "Α", "U+0342">>,
     <<"ᾷ", "Α", "U+0342", "Ι">>, <<"ᾼ", "Α", "Ι">>, <<"ι", "Ι">>,
     <<"ῂ", "Ὴ", "Ι">>, <<"ῃ", "Η", "Ι">>, <<"ῄ", "Ή", "Ι">>,
     <<"ῆ", "Η", "U+0342">>, <<"ῇ", "Η", "U+0342", "Ι">>, <<"ῌ", "Η", "Ι">>,
     <<"ῐ", "Ῐ">>, <<"ῑ", "Ῑ">>, <<"ῒ", "Ι", "U+0308", "U+0300">>,
     <<"ΐ", "Ι", "U+0308", "U+0301">>, <<"ῖ", "Ι", "U+0342">>,
     <<"ῗ", "Ι", "U+0308", "U+0342">>, <<"ῠ", "Ῠ">>, <<"ῡ", "Ῡ">>,
     <<"ῢ", "Υ", "U+0308", "U+0300">>, <<"ΰ", "Υ", "U+0308", "U+0301">>,
     <<"ῤ", "Ρ", "U+0313">>, <<"ῥ", "Ῥ">>, <<"ῦ", "Υ", "U+0342">>,
     <<"ῧ", "Υ", "U+0308", "U+0342">>, <<"ῲ", "Ὼ", "Ι">>, <<"ῳ", "Ω", "Ι">>,
     <<"ῴ", "Ώ", "Ι">>, <<"ῶ", "Ω", "U+0342">>, <<"ῷ", "Ω", "U+0342", "Ι">>,
     <<"ῼ", "Ω", "Ι">>, <<"U+214E", "U+2132">>, <<"U+2170", "U+2160">>,
     <<"U+2171", "U+2161">>, <<"U+2172", "U+2162">>, <<"U+2173", "U+2163">>,
     <<"U+2174", "U+2164">>, <<"U+2175", "U+2165">>, <<"U+2176", "U+2166">>,
     <<"U+2177", "U+2167">>, <<"U+2178", "U+2168">>, <<"U+2179", "U+2169">>,
     <<"U+217A", "U+216A">>, <<"U+217B", "U+216B">>, <<"U+217C", "U+216C">>,
     <<"U+217D", "U+216D">>, <<"U+217E", "U+216E">>, <<"U+217F", "U+216F">>,
     <<"ↄ", "Ↄ">>, <<"ⓐ", "Ⓐ">>, <<"ⓑ", "Ⓑ">>, <<"ⓒ", "Ⓒ">>, <<"ⓓ", "Ⓓ">>,
     <<"ⓔ", "Ⓔ">>, <<"ⓕ", "Ⓕ">>, <<"ⓖ", "Ⓖ">>, <<"ⓗ", "Ⓗ">>, <<"ⓘ", "Ⓘ">>,
     <<"ⓙ", "Ⓙ">>, <<"ⓚ", "Ⓚ">>, <<"ⓛ", "Ⓛ">>, <<"ⓜ", "Ⓜ">>, <<"ⓝ", "Ⓝ">>,
     <<"ⓞ", "Ⓞ">>, <<"ⓟ", "Ⓟ">>, <<"ⓠ", "Ⓠ">>, <<"ⓡ", "Ⓡ">>, <<"ⓢ", "Ⓢ">>,
     <<"ⓣ", "Ⓣ">>, <<"ⓤ", "Ⓤ">>, <<"ⓥ", "Ⓥ">>, <<"ⓦ", "Ⓦ">>, <<"ⓧ", "Ⓧ">>,
     <<"ⓨ", "Ⓨ">>, <<"ⓩ", "Ⓩ">>, <<"U+2C30", "U+2C00">>,
     <<"U+2C31", "U+2C01">>, <<"U+2C32", "U+2C02">>, <<"U+2C33", "U+2C03">>,
     <<"U+2C34", "U+2C04">>, <<"U+2C35", "U+2C05">>, <<"U+2C36", "U+2C06">>,
     <<"U+2C37", "U+2C07">>, <<"U+2C38", "U+2C08">>, <<"U+2C39", "U+2C09">>,
     <<"U+2C3A", "U+2C0A">>, <<"U+2C3B", "U+2C0B">>, <<"U+2C3C", "U+2C0C">>,
     <<"U+2C3D", "U+2C0D">>, <<"U+2C3E", "U+2C0E">>, <<"U+2C3F", "U+2C0F">>,
     <<"U+2C40", "U+2C10">>, <<"U+2C41", "U+2C11">>, <<"U+2C42", "U+2C12">>,
     <<"U+2C43", "U+2C13">>, <<"U+2C44", "U+2C14">>, <<"U+2C45", "U+2C15">>,
     <<"U+2C46", "U+2C16">>, <<"U+2C47", "U+2C17">>, <<"U+2C48", "U+2C18">>,
     <<"U+2C49", "U+2C19">>, <<"U+2C4A", "U+2C1A">>, <<"U+2C4B", "U+2C1B">>,
     <<"U+2C4C", "U+2C1C">>, <<"U+2C4D", "U+2C1D">>, <<"U+2C4E", "U+2C1E">>,
     <<"U+2C4F", "U+2C1F">>, <<"U+2C50", "U+2C20">>, <<"U+2C51", "U+2C21">>,
     <<"U+2C52", "U+2C22">>, <<"U+2C53", "U+2C23">>, <<"U+2C54", "U+2C24">>,
     <<"U+2C55", "U+2C25">>, <<"U+2C56", "U+2C26">>, <<"U+2C57", "U+2C27">>,
     <<"U+2C58", "U+2C28">>, <<"U+2C59", "U+2C29">>, <<"U+2C5A", "U+2C2A">>,
     <<"U+2C5B", "U+2C2B">>, <<"U+2C5C", "U+2C2C">>, <<"U+2C5D", "U+2C2D">>,
     <<"U+2C5E", "U+2C2E">>, <<"U+2C5F", "U+2C2F">>, <<"U+2C61", "U+2C60">>,
     <<"U+2C65", "U+023A">>, <<"U+2C66", "U+023E">>, <<"U+2C68", "U+2C67">>,
     <<"U+2C6A", "U+2C69">>, <<"U+2C6C", "U+2C6B">>, <<"U+2C73", "U+2C72">>,
     <<"U+2C76", "U+2C75">>, <<"ⲁ", "Ⲁ">>, <<"ⲃ", "Ⲃ">>, <<"ⲅ", "Ⲅ">>,
     <<"ⲇ", "Ⲇ">>, <<"ⲉ", "Ⲉ">>, <<"ⲋ", "Ⲋ">>, <<"ⲍ", "Ⲍ">>, <<"ⲏ", "Ⲏ">>,
     <<"ⲑ", "Ⲑ">>, <<"ⲓ", "Ⲓ">>, <<"ⲕ", "Ⲕ">>, <<"ⲗ", "Ⲗ">>, <<"ⲙ", "Ⲙ">>,
     <<"ⲛ", "Ⲛ">>, <<"ⲝ", "Ⲝ">>, <<"ⲟ", "Ⲟ">>, <<"ⲡ", "Ⲡ">>, <<"ⲣ", "Ⲣ">>,
     <<"ⲥ", "Ⲥ">>, <<"ⲧ", "Ⲧ">>, <<"ⲩ", "Ⲩ">>, <<"ⲫ", "Ⲫ">>, <<"ⲭ", "Ⲭ">>,
     <<"ⲯ", "Ⲯ">>, <<"ⲱ", "Ⲱ">>, <<"ⲳ", "Ⲳ">>, <<"ⲵ", "Ⲵ">>, <<"ⲷ", "Ⲷ">>,
     <<"ⲹ", "Ⲹ">>, <<"ⲻ", "Ⲻ">>, <<"ⲽ", "Ⲽ">>, <<"ⲿ", "Ⲿ">>, <<"ⳁ", "Ⳁ">>,
     <<"ⳃ", "Ⳃ">>, <<"ⳅ", "Ⳅ">>, <<"ⳇ", "Ⳇ">>, <<"ⳉ", "Ⳉ">>, <<"ⳋ", "Ⳋ">>,
     <<"ⳍ", "Ⳍ">>, <<"ⳏ", "Ⳏ">>, <<"ⳑ", "Ⳑ">>, <<"ⳓ", "Ⳓ">>, <<"ⳕ", "Ⳕ">>,
     <<"ⳗ", "Ⳗ">>, <<"ⳙ", "Ⳙ">>, <<"ⳛ", "Ⳛ">>, <<"ⳝ", "Ⳝ">>, <<"ⳟ", "Ⳟ">>,
     <<"ⳡ", "Ⳡ">>, <<"ⳣ", "Ⳣ">>, <<"ⳬ", "Ⳬ">>, <<"ⳮ", "Ⳮ">>, <<"ⳳ", "Ⳳ">>,
     <<"U+2D00", "Ⴀ">>, <<"U+2D01", "Ⴁ">>, <<"U+2D02", "Ⴂ">>,
     <<"U+2D03", "Ⴃ">>, <<"U+2D04", "Ⴄ">>, <<"U+2D05", "Ⴅ">>,
     <<"U+2D06", "Ⴆ">>, <<"U+2D07", "Ⴇ">>, <<"U+2D08", "Ⴈ">>,
     <<"U+2D09", "Ⴉ">>, <<"U+2D0A", "Ⴊ">>, <<"U+2D0B", "Ⴋ">>,
     <<"U+2D0C", "Ⴌ">>, <<"U+2D0D", "Ⴍ">>, <<"U+2D0E", "Ⴎ">>,
     <<"U+2D0F", "Ⴏ">>, <<"U+2D10", "Ⴐ">>, <<"U+2D11", "Ⴑ">>,
     <<"U+2D12", "Ⴒ">>, <<"U+2D13", "Ⴓ">>, <<"U+2D14", "Ⴔ">>,
     <<"U+2D15", "Ⴕ">>, <<"U+2D16", "Ⴖ">>, <<"U+2D17", "Ⴗ">>,
     <<"U+2D18", "Ⴘ">>, <<"U+2D19", "Ⴙ">>, <<"U+2D1A", "Ⴚ">>,
     <<"U+2D1B", "Ⴛ">>, <<"U+2D1C", "Ⴜ">>, <<"U+2D1D", "Ⴝ">>,
     <<"U+2D1E", "Ⴞ">>, <<"U+2D1F", "Ⴟ">>, <<"U+2D20", "Ⴠ">>,
     <<"U+2D21", "Ⴡ">>, <<"U+2D22", "Ⴢ">>, <<"U+2D23", "Ⴣ">>,
     <<"U+2D24", "Ⴤ">>, <<"U+2D25", "Ⴥ">>, <<"U+2D27", "Ⴧ">>,
     <<"U+2D2D", "Ⴭ">>, <<"U+A641", "U+A640">>, <<"U+A643", "U+A642">>,
     <<"U+A645", "U+A644">>, <<"U+A647", "U+A646">>, <<"U+A649", "U+A648">>,
     <<"U+A64B", "U+A64A">>, <<"U+A64D", "U+A64C">>, <<"U+A64F", "U+A64E">>,
     <<"U+A651", "U+A650">>, <<"U+A653", "U+A652">>, <<"U+A655", "U+A654">>,
     <<"U+A657", "U+A656">>, <<"U+A659", "U+A658">>, <<"U+A65B", "U+A65A">>,
     <<"U+A65D", "U+A65C">>, <<"U+A65F", "U+A65E">>, <<"U+A661", "U+A660">>,
     <<"U+A663", "U+A662">>, <<"U+A665", "U+A664">>, <<"U+A667", "U+A666">>,
     <<"U+A669", "U+A668">>, <<"U+A66B", "U+A66A">>, <<"U+A66D", "U+A66C">>,
     <<"ꚁ", "Ꚁ">>, <<"ꚃ", "Ꚃ">>, <<"ꚅ", "Ꚅ">>, <<"ꚇ", "Ꚇ">>, <<"ꚉ", "Ꚉ">>,
     <<"ꚋ", "Ꚋ">>, <<"ꚍ", "Ꚍ">>, <<"ꚏ", "Ꚏ">>, <<"ꚑ", "Ꚑ">>, <<"ꚓ", "Ꚓ">>,
     <<"ꚕ", "Ꚕ">>, <<"ꚗ", "Ꚗ">>, <<"ꚙ", "Ꚙ">>, <<"ꚛ", "Ꚛ">>,
     <<"U+A723", "U+A722">>, <<"U+A725", "U+A724">>, <<"U+A727", "U+A726">>,
     <<"U+A729", "U+A728">>, <<"U+A72B", "U+A72A">>, <<"U+A72D", "U+A72C">>,
     <<"U+A72F", "U+A72E">>, <<"U+A733", "U+A732">>, <<"U+A735", "U+A734">>,
     <<"U+A737", "U+A736">>, <<"U+A739", "U+A738">>, <<"U+A73B", "U+A73A">>,
     <<"U+A73D", "U+A73C">>, <<"U+A73F", "U+A73E">>, <<"U+A741", "U+A740">>,
     <<"U+A743", "U+A742">>, <<"U+A745", "U+A744">>, <<"U+A747", "U+A746">>,
     <<"U+A749", "U+A748">>, <<"U+A74B", "U+A74A">>, <<"U+A74D", "U+A74C">>,
     <<"U+A74F", "U+A74E">>, <<"U+A751", "U+A750">>, <<"U+A753", "U+A752">>,
     <<"U+A755", "U+A754">>, <<"U+A757", "U+A756">>, <<"U+A759", "U+A758">>,
     <<"U+A75B", "U+A75A">>, <<"U+A75D", "U+A75C">>, <<"U+A75F", "U+A75E">>,
     <<"U+A761", "U+A760">>, <<"U+A763", "U+A762">>, <<"U+A765", "U+A764">>,
     <<"U+A767", "U+A766">>, <<"U+A769", "U+A768">>, <<"U+A76B", "U+A76A">>,
     <<"U+A76D", "U+A76C">>, <<"U+A76F", "U+A76E">>, <<"U+A77A", "U+A779">>,
     <<"U+A77C", "U+A77B">>, <<"U+A77F", "U+A77E">>, <<"ꞁ", "Ꞁ">>,
     <<"ꞃ", "Ꞃ">>, <<"ꞅ", "Ꞅ">>, <<"ꞇ", "Ꞇ">>, <<"ꞌ", "Ꞌ">>, <<"ꞑ", "Ꞑ">>,
     <<"ꞓ", "Ꞓ">>, <<"ꞔ", "Ꞔ">>, <<"ꞗ", "Ꞗ">>, <<"ꞙ", "Ꞙ">>, <<"ꞛ", "Ꞛ">>,
     <<"ꞝ", "Ꞝ">>, <<"ꞟ", "Ꞟ">>, <<"ꞡ", "Ꞡ">>, <<"ꞣ", "Ꞣ">>, <<"ꞥ", "Ꞥ">>,
     <<"ꞧ", "Ꞧ">>, <<"ꞩ", "Ꞩ">>, <<"ꞵ", "Ꞵ">>, <<"ꞷ", "Ꞷ">>, <<"ꞹ", "Ꞹ">>,
     <<"ꞻ", "Ꞻ">>, <<"ꞽ", "Ꞽ">>, <<"ꞿ", "Ꞿ">>, <<"ꟁ", "Ꟁ">>, <<"ꟃ", "Ꟃ">>,
     <<"ꟈ", "Ꟈ">>, <<"ꟊ", "Ꟊ">>, <<"ꟑ", "Ꟑ">>, <<"ꟗ", "Ꟗ">>, <<"ꟙ", "Ꟙ">>,
     <<"ꟶ", "Ꟶ">>, <<"U+AB53", "Ꭓ">>, <<"U+AB70", "Ꭰ">>, <<"U+AB71", "Ꭱ">>,
     <<"U+AB72", "Ꭲ">>, <<"U+AB73", "Ꭳ">>, <<"U+AB74", "Ꭴ">>,
     <<"U+AB75", "Ꭵ">>, <<"U+AB76", "Ꭶ">>, <<"U+AB77", "Ꭷ">>,
     <<"U+AB78", "Ꭸ">>, <<"U+AB79", "Ꭹ">>, <<"U+AB7A", "Ꭺ">>,
     <<"U+AB7B", "Ꭻ">>, <<"U+AB7C", "Ꭼ">>, <<"U+AB7D", "Ꭽ">>,
     <<"U+AB7E", "Ꭾ">>, <<"U+AB7F", "Ꭿ">>, <<"ꮀ", "Ꮀ">>, <<"ꮁ", "Ꮁ">>,
     <<"ꮂ", "Ꮂ">>, <<"ꮃ", "Ꮃ">>, <<"ꮄ", "Ꮄ">>, <<"ꮅ", "Ꮅ">>, <<"ꮆ", "Ꮆ">>,
     <<"ꮇ", "Ꮇ">>, <<"ꮈ", "Ꮈ">>, <<"ꮉ", "Ꮉ">>, <<"ꮊ", "Ꮊ">>, <<"ꮋ", "Ꮋ">>,
     <<"ꮌ", "Ꮌ">>, <<"ꮍ", "Ꮍ">>, <<"ꮎ", "Ꮎ">>, <<"ꮏ", "Ꮏ">>, <<"ꮐ", "Ꮐ">>,
     <<"ꮑ", "Ꮑ">>, <<"ꮒ", "Ꮒ">>, <<"ꮓ", "Ꮓ">>, <<"ꮔ", "Ꮔ">>, <<"ꮕ", "Ꮕ">>,
     <<"ꮖ", "Ꮖ">>, <<"ꮗ", "Ꮗ">>, <<"ꮘ", "Ꮘ">>, <<"ꮙ", "Ꮙ">>, <<"ꮚ", "Ꮚ">>,
     <<"ꮛ", "Ꮛ">>, <<"ꮜ", "Ꮜ">>, <<"ꮝ", "Ꮝ">>, <<"ꮞ", "Ꮞ">>, <<"ꮟ", "Ꮟ">>,
     <<"ꮠ", "Ꮠ">>, <<"ꮡ", "Ꮡ">>, <<"ꮢ", "Ꮢ">>, <<"ꮣ", "Ꮣ">>, <<"ꮤ", "Ꮤ">>,
     <<"ꮥ", "Ꮥ">>, <<"ꮦ", "Ꮦ">>, <<"ꮧ", "Ꮧ">>, <<"ꮨ", "Ꮨ">>, <<"ꮩ", "Ꮩ">>,
     <<"ꮪ", "Ꮪ">>, <<"ꮫ", "Ꮫ">>, <<"ꮬ", "Ꮬ">>, <<"ꮭ", "Ꮭ">>, <<"ꮮ", "Ꮮ">>,
     <<"ꮯ", "Ꮯ">>, <<"ꮰ", "Ꮰ">>, <<"ꮱ", "Ꮱ">>, <<"ꮲ", "Ꮲ">>, <<"ꮳ", "Ꮳ">>,
     <<"ꮴ", "Ꮴ">>, <<"ꮵ", "Ꮵ">>, <<"ꮶ", "Ꮶ">>, <<"ꮷ", "Ꮷ">>, <<"ꮸ", "Ꮸ">>,
     <<"ꮹ", "Ꮹ">>, <<"ꮺ", "Ꮺ">>, <<"ꮻ", "Ꮻ">>, <<"ꮼ", "Ꮼ">>, <<"ꮽ", "Ꮽ">>,
     <<"ꮾ", "Ꮾ">>, <<"ꮿ", "Ꮿ">>, <<"U+FB00", "F", "F">>,
     <<"U+FB01", "F", "I">>, <<"U+FB02", "F", "L">>,
     <<"U+FB03", "F", "F", "I">>, <<"U+FB04", "F", "F", "L">>,
     <<"U+FB05", "S", "T">>, <<"U+FB06", "S", "T">>,
     <<"U+FB13", "U+0544", "U+0546">>, <<"U+FB14", "U+0544", "U+0535">>,
     <<"U+FB15", "U+0544", "U+053B">>, <<"U+FB16", "U+054E", "U+0546">>,
     <<"U+FB17", "U+0544", "U+053D">>, <<"U+FF41", "U+FF21">>,
     <<"U+FF42", "U+FF22">>, <<"U+FF43", "U+FF23">>, <<"U+FF44", "U+FF24">>,
     <<"U+FF45", "U+FF25">>, <<"U+FF46", "U+FF26">>, <<"U+FF47", "U+FF27">>,
     <<"U+FF48", "U+FF28">>, <<"U+FF49", "U+FF29">>, <<"U+FF4A", "U+FF2A">>,
     <<"U+FF4B", "U+FF2B">>, <<"U+FF4C", "U+FF2C">>, <<"U+FF4D", "U+FF2D">>,
     <<"U+FF4E", "U+FF2E">>, <<"U+FF4F", "U+FF2F">>, <<"U+FF50", "U+FF30">>,
     <<"U+FF51", "U+FF31">>, <<"U+FF52", "U+FF32">>, <<"U+FF53", "U+FF33">>,
     <<"U+FF54", "U+FF34">>, <<"U+FF55", "U+FF35">>, <<"U+FF56", "U+FF36">>,
     <<"U+FF57", "U+FF37">>, <<"U+FF58", "U+FF38">>, <<"U+FF59", "U+FF39">>,
     <<"U+FF5A", "U+FF3A">>, <<"U+10428", "U+10400">>,
     <<"U+10429", "U+10401">>, <<"U+1042A", "U+10402">>,
     <<"U+1042B", "U+10403">>, <<"U+1042C", "U+10404">>,
     <<"U+1042D", "U+10405">>, <<"U+1042E", "U+10406">>,
     <<"U+1042F", "U+10407">>, <<"U+10430", "U+10408">>,
     <<"U+10431", "U+10409">>, <<"U+10432", "U+1040A">>,
     <<"U+10433", "U+1040B">>, <<"U+10434", "U+1040C">>,
     <<"U+10435", "U+1040D">>, <<"U+10436", "U+1040E">>,
     <<"U+10437", "U+1040F">>, <<"U+10438", "U+10410">>,
     <<"U+10439", "U+10411">>, <<"U+1043A", "U+10412">>,
     <<"U+1043B", "U+10413">>, <<"U+1043C", "U+10414">>,
     <<"U+1043D", "U+10415">>, <<"U+1043E", "U+10416">>,
     <<"U+1043F", "U+10417">>, <<"U+10440", "U+10418">>,
     <<"U+10441", "U+10419">>, <<"U+10442", "U+1041A">>,
     <<"U+10443", "U+1041B">>, <<"U+10444", "U+1041C">>,
     <<"U+10445", "U+1041D">>, <<"U+10446", "U+1041E">>,
     <<"U+10447", "U+1041F">>, <<"U+10448", "U+10420">>,
     <<"U+10449", "U+10421">>, <<"U+1044A", "U+10422">>,
     <<"U+1044B", "U+10423">>, <<"U+1044C", "U+10424">>,
     <<"U+1044D", "U+10425">>, <<"U+1044E", "U+10426">>,
     <<"U+1044F", "U+10427">>, <<"U+104D8", "U+104B0">>,
     <<"U+104D9", "U+104B1">>, <<"U+104DA", "U+104B2">>,
     <<"U+104DB", "U+104B3">>, <<"U+104DC", "U+104B4">>,
     <<"U+104DD", "U+104B5">>, <<"U+104DE", "U+104B6">>,
     <<"U+104DF", "U+104B7">>, <<"U+104E0", "U+104B8">>,
     <<"U+104E1", "U+104B9">>, <<"U+104E2", "U+104BA">>,
     <<"U+104E3", "U+104BB">>, <<"U+104E4", "U+104BC">>,
     <<"U+104E5", "U+104BD">>, <<"U+104E6", "U+104BE">>,
     <<"U+104E7", "U+104BF">>, <<"U+104E8", "U+104C0">>,
     <<"U+104E9", "U+104C1">>, <<"U+104EA", "U+104C2">>,
     <<"U+104EB", "U+104C3">>, <<"U+104EC", "U+104C4">>,
     <<"U+104ED", "U+104C5">>, <<"U+104EE", "U+104C6">>,
     <<"U+104EF", "U+104C7">>, <<"U+104F0", "U+104C8">>,
     <<"U+104F1", "U+104C9">>, <<"U+104F2", "U+104CA">>,
     <<"U+104F3", "U+104CB">>, <<"U+104F4", "U+104CC">>,
     <<"U+104F5", "U+104CD">>, <<"U+104F6", "U+104CE">>,
     <<"U+104F7", "U+104CF">>, <<"U+104F8", "U+104D0">>,
     <<"U+104F9", "U+104D1">>, <<"U+104FA", "U+104D2">>,
     <<"U+104FB", "U+104D3">>, <<"U+10597", "U+10570">>,
     <<"U+10598", "U+10571">>, <<"U+10599", "U+10572">>,
     <<"U+1059A", "U+10573">>, <<"U+1059B", "U+10574">>,
     <<"U+1059C", "U+10575">>, <<"U+1059D", "U+10576">>,
     <<"U+1059E", "U+10577">>, <<"U+1059F", "U+10578">>,
     <<"U+105A0", "U+10579">>, <<"U+105A1", "U+1057A">>,
     <<"U+105A3", "U+1057C">>, <<"U+105A4", "U+1057D">>,
     <<"U+105A5", "U+1057E">>, <<"U+105A6", "U+1057F">>,
     <<"U+105A7", "U+10580">>, <<"U+105A8", "U+10581">>,
     <<"U+105A9", "U+10582">>, <<"U+105AA", "U+10583">>,
     <<"U+105AB", "U+10584">>, <<"U+105AC", "U+10585">>,
     <<"U+105AD", "U+10586">>, <<"U+105AE", "U+10587">>,
     <<"U+105AF", "U+10588">>, <<"U+105B0", "U+10589">>,
     <<"U+105B1", "U+1058A">>, <<"U+105B3", "U+1058C">>,
     <<"U+105B4", "U+1058D">>, <<"U+105B5", "U+1058E">>,
     <<"U+105B6", "U+1058F">>, <<"U+105B7", "U+10590">>,
     <<"U+105B8", "U+10591">>, <<"U+105B9", "U+10592">>,
     <<"U+105BB", "U+10594">>, <<"U+105BC", "U+10595">>,
     <<"U+10CC0", "U+10C80">>, <<"U+10CC1", "U+10C81">>,
     <<"U+10CC2", "U+10C82">>, <<"U+10CC3", "U+10C83">>,
     <<"U+10CC4", "U+10C84">>, <<"U+10CC5", "U+10C85">>,
     <<"U+10CC6", "U+10C86">>, <<"U+10CC7", "U+10C87">>,
     <<"U+10CC8", "U+10C88">>, <<"U+10CC9", "U+10C89">>,
     <<"U+10CCA", "U+10C8A">>, <<"U+10CCB", "U+10C8B">>,
     <<"U+10CCC", "U+10C8C">>, <<"U+10CCD", "U+10C8D">>,
     <<"U+10CCE", "U+10C8E">>, <<"U+10CCF", "U+10C8F">>,
     <<"U+10CD0", "U+10C90">>, <<"U+10CD1", "U+10C91">>,
     <<"U+10CD2", "U+10C92">>, <<"U+10CD3", "U+10C93">>,
     <<"U+10CD4", "U+10C94">>, <<"U+10CD5", "U+10C95">>,
     <<"U+10CD6", "U+10C96">>, <<"U+10CD7", "U+10C97">>,
     <<"U+10CD8", "U+10C98">>, <<"U+10CD9", "U+10C99">>,
     <<"U+10CDA", "U+10C9A">>, <<"U+10CDB", "U+10C9B">>,
     <<"U+10CDC", "U+10C9C">>, <<"U+10CDD", "U+10C9D">>,
     <<"U+10CDE", "U+10C9E">>, <<"U+10CDF", "U+10C9F">>,
     <<"U+10CE0", "U+10CA0">>, <<"U+10CE1", "U+10CA1">>,
     <<"U+10CE2", "U+10CA2">>, <<"U+10CE3", "U+10CA3">>,
     <<"U+10CE4", "U+10CA4">>, <<"U+10CE5", "U+10CA5">>,
     <<"U+10CE6", "U+10CA6">>, <<"U+10CE7", "U+10CA7">>,
     <<"U+10CE8", "U+10CA8">>, <<"U+10CE9", "U+10CA9">>,
     <<"U+10CEA", "U+10CAA">>, <<"U+10CEB", "U+10CAB">>,
     <<"U+10CEC", "U+10CAC">>, <<"U+10CED", "U+10CAD">>,
     <<"U+10CEE", "U+10CAE">>, <<"U+10CEF", "U+10CAF">>,
     <<"U+10CF0", "U+10CB0">>, <<"U+10CF1", "U+10CB1">>,
     <<"U+10CF2", "U+10CB2">>, <<"U+118C0", "U+118A0">>,
     <<"U+118C1", "U+118A1">>, <<"U+118C2", "U+118A2">>,
     <<"U+118C3", "U+118A3">>, <<"U+118C4", "U+118A4">>,
     <<"U+118C5", "U+118A5">>, <<"U+118C6", "U+118A6">>,
     <<"U+118C7", "U+118A7">>, <<"U+118C8", "U+118A8">>,
     <<"U+118C9", "U+118A9">>, <<"U+118CA", "U+118AA">>,
     <<"U+118CB", "U+118AB">>, <<"U+118CC", "U+118AC">>,
     <<"U+118CD", "U+118AD">>, <<"U+118CE", "U+118AE">>,
     <<"U+118CF", "U+118AF">>, <<"U+118D0", "U+118B0">>,
     <<"U+118D1", "U+118B1">>, <<"U+118D2", "U+118B2">>,
     <<"U+118D3", "U+118B3">>, <<"U+118D4", "U+118B4">>,
     <<"U+118D5", "U+118B5">>, <<"U+118D6", "U+118B6">>,
     <<"U+118D7", "U+118B7">>, <<"U+118D8", "U+118B8">>,
     <<"U+118D9", "U+118B9">>, <<"U+118DA", "U+118BA">>,
     <<"U+118DB", "U+118BB">>, <<"U+118DC", "U+118BC">>,
     <<"U+118DD", "U+118BD">>, <<"U+118DE", "U+118BE">>,
     <<"U+118DF", "U+118BF">>, <<"U+16E60", "U+16E40">>,
     <<"U+16E61", "U+16E41">>, <<"U+16E62", "U+16E42">>,
     <<"U+16E63", "U+16E43">>, <<"U+16E64", "U+16E44">>,
     <<"U+16E65", "U+16E45">>, <<"U+16E66", "U+16E46">>,
     <<"U+16E67", "U+16E47">>, <<"U+16E68", "U+16E48">>,
     <<"U+16E69", "U+16E49">>, <<"U+16E6A", "U+16E4A">>,
     <<"U+16E6B", "U+16E4B">>, <<"U+16E6C", "U+16E4C">>,
     <<"U+16E6D", "U+16E4D">>, <<"U+16E6E", "U+16E4E">>,
     <<"U+16E6F", "U+16E4F">>, <<"U+16E70", "U+16E50">>,
     <<"U+16E71", "U+16E51">>, <<"U+16E72", "U+16E52">>,
     <<"U+16E73", "U+16E53">>, <<"U+16E74", "U+16E54">>,
     <<"U+16E75", "U+16E55">>, <<"U+16E76", "U+16E56">>,
     <<"U+16E77", "U+16E57">>, <<"U+16E78", "U+16E58">>,
     <<"U+16E79", "U+16E59">>, <<"U+16E7A", "U+16E5A">>,
     <<"U+16E7B", "U+16E5B">>, <<"U+16E7C", "U+16E5C">>,
     <<"U+16E7D", "U+16E5D">>, <<"U+16E7E", "U+16E5E">>,
     <<"U+16E7F", "U+16E5F">>, <<"U+1E922", "U+1E900">>,
     <<"U+1E923", "U+1E901">>, <<"U+1E924", "U+1E902">>,
     <<"U+1E925", "U+1E903">>, <<"U+1E926", "U+1E904">>,
     <<"U+1E927", "U+1E905">>, <<"U+1E928", "U+1E906">>,
     <<"U+1E929", "U+1E907">>, <<"U+1E92A", "U+1E908">>,
     <<"U+1E92B", "U+1E909">>, <<"U+1E92C", "U+1E90A">>,
     <<"U+1E92D", "U+1E90B">>, <<"U+1E92E", "U+1E90C">>,
     <<"U+1E92F", "U+1E90D">>, <<"U+1E930", "U+1E90E">>,
     <<"U+1E931", "U+1E90F">>, <<"U+1E932", "U+1E910">>,
     <<"U+1E933", "U+1E911">>, <<"U+1E934", "U+1E912">>,
     <<"U+1E935", "U+1E913">>, <<"U+1E936", "U+1E914">>,
     <<"U+1E937", "U+1E915">>, <<"U+1E938", "U+1E916">>,
     <<"U+1E939", "U+1E917">>, <<"U+1E93A", "U+1E918">>,
     <<"U+1E93B", "U+1E919">>, <<"U+1E93C", "U+1E91A">>,
     <<"U+1E93D", "U+1E91B">>, <<"U+1E93E", "U+1E91C">>,
     <<"U+1E93F", "U+1E91D">>, <<"U+1E940", "U+1E91E">>,
     <<"U+1E941", "U+1E91F">>, <<"U+1E942", "U+1E920">>,
     <<"U+1E943", "U+1E921">>}

\* str.upper() of one character that it changes, as a character sequence
UpperOf ==
    [c \in {e[1] : e \in UpperTable} |-> Tail(CHOOSE e \in UpperTable : e[1] = c)]

\* str.upper() on one character: one character or, as for "ß", several
UpperChar(c) == IF c \in DOMAIN UpperOf THEN UpperOf[c] ELSE <<c>>

\* pairs of a lower-case and an upper-case letter that str.lower() and
\* str.swapcase() relate
LowerLetters == <<"a", "b", "c", "d", "e", "f", "g", "h", "i", "j", "k", "l", "m",
                  "n", "o", "p", "q", "r", "s", "t", "u", "v", "w", "x", "y", "z",
                  "é", "ß">>

UpperLetters == <<"A", "B", "C", "D", "E", "F", "G", "H", "I", "J", "K", "L", "M",
                  "N", "O", "P", "Q", "R", "S", "T", "U", "V", "W", "X", "Y", "Z",
                  "É", "ẞ">>

LowerOf ==
    [c \in {UpperLetters[i] : i \in DOMAIN UpperLetters} |->
        LowerLetters[CHOOSE i \in DOMAIN UpperLetters : UpperLetters[i] = c]]

\* str.lower() on one character
LowerChar(c) == IF c \in DOMAIN LowerOf THEN LowerOf[c] ELSE c

\* str.swapcase() on one character, as a character sequence
SwapCaseChar(c) ==
    IF c \in DOMAIN UpperOf THEN UpperOf[c] ELSE <<LowerChar(c)>>

-----------------------------------------------------------------------------
(* Python string operations on character sequences *)

\* s.find(c): 0-based index of the first occurrence, -1 when absent
Find(s, c) ==
    IF \E i \in 1..Len(s) : s[i] = c
    THEN (CHOOSE i \in 1..Len(s) : s[i] = c /\ \A j \in 1..(i - 1) : s[j] # c) - 1
    ELSE -1

\* s[a:b] for 0 <= a <= b <= len(s)
Slice(s, a, b) == SubSeq(s, a + 1, b)

\* sub in s, for a non-empty sub: sub occurs at some offset i of s
Contains(s, sub) ==
    \E i \in 0..(Len(s) - Len(sub)) :
        s[i + 1] = sub[1] /\ SubSeq(s, i + 1, i + Len(sub)) = sub

\* s.startswith(p)
StartsWith(s, p) == Len(s) >= Len(p) /\ SubSeq(s, 1, Len(p)) = p

\* s.endswith(p)
EndsWith(s, p) == Len(s) >= Len(p) /\ SubSeq(s, Len(s) - Len(p) + 1, Len(s)) = p

RECURSIVE LStrip(_)
LStrip(s) ==
    IF s # <<>> /\ Head(s) \in Whitespace THEN LStrip(Tail(s)) ELSE s

RECURSIVE RStrip(_)
RStrip(s) ==
    IF s # <<>> /\ s[Len(s)] \in Whitespace
    THEN RStrip(SubSeq(s, 1, Len(s) - 1))
    ELSE s

\* s.strip()
Strip(s) == RStrip(LStrip(s))

RECURSIVE Upper(_)
\* s.upper()
Upper(s) == IF s = <<>> THEN <<>> ELSE UpperChar(Head(s)) \o Upper(Tail(s))

RECURSIVE SwapCase(_)
\* s.swapcase()
SwapCase(s) == IF s = <<>> THEN <<>> ELSE SwapCaseChar(Head(s)) \o SwapCase(Tail(s))

RECURSIVE SplitFrom(_, _, _)
SplitFrom(s, i, word) ==
    IF i > Len(s)
    THEN IF word = <<>> THEN <<>> ELSE <<word>>
    ELSE IF s[i] \in Whitespace
         THEN (IF word = <<>> THEN <<>> ELSE <<word>>) \o SplitFrom(s, i + 1, <<>>)
         ELSE SplitFrom(s, i + 1, Append(word, s[i]))

\* s.split(): the maximal runs of non-whitespace characters
Split(s) == SplitFrom(s, 1, <<>>)

RECURSIVE SplitOnFrom(_, _, _, _)
SplitOnFrom(s, sep, i, word) ==
    IF i > Len(s)
    THEN <<word>>
    ELSE IF s[i] = sep
         THEN <<word>> \o SplitOnFrom(s, sep, i + 1, <<>>)
         ELSE SplitOnFrom(s, sep, i + 1, Append(word, s[i]))

\* s.split(sep) with a one-character separator: empty pieces are kept
SplitOn(s, sep) == SplitOnFrom(s, sep, 1, <<>>)

RECURSIVE Join(_, _)
\* sep.join(words)
Join(sep, words) ==
    IF words = <<>> THEN <<>>
    ELSE IF Len(words) = 1 THEN words[1]
    ELSE words[1] \o sep \o Join(sep, Tail(words))

-----------------------------------------------------------------------------
(* Rating scale *)

CanonicalLabels == {"Excellent", "Very Good", "Good", "Fair", "Poor"}

\* the dict literal of convert_rating_to_score
rating_to_score ==
    [r \in CanonicalLabels |->
        CASE r = "Excellent" -> 5
          [] r = "Very Good" -> 4
          [] r = "Good" -> 3
          [] r = "Fair" -> 2
          [] r = "Poor" -> 1]

\* dict.get(key, default) on rating_to_score with default None
DictGet(rating) ==
    IF rating \in DOMAIN rating_to_score THEN Some(rating_to_score[rating]) ELSE None

\* a plausible slip: .get(rating, 0)
ConvertRatingToScoreZero(rating) ==
    IF IsNa(rating) THEN None
    ELSE IF rating \in DOMAIN rating_to_score THEN Some(rating_to_score[rating])
         ELSE Some(0)

\* app6.py / app7.py
ConvertRatingToScore(rating) ==
    IF IsNa(rating) THEN None ELSE DictGet(rating)

\* app.py / app3.py / app4.py / app5.py: no isna test, NaN is no key of the dict
ConvertRatingToScoreApp(rating) == DictGet(rating)

-----------------------------------------------------------------------------
(* Subject key normalizer *)

\* a plausible slip: split(' ') in place of split()
NormalizeSplitSpace(name) ==
    IF name = NaNLabel THEN NaNLabel
    ELSE Join(<<" ">>, SplitOn(Upper(Strip(name)), " "))

\* a plausible slip: swapcase() in place of upper()
NormalizeSwapCase(name) ==
    IF name = NaNLabel THEN NaNLabel
    ELSE Join(<<" ">>, Split(SwapCase(Strip(name))))

\* app6.py / app7.py: ' '.join(str(name).strip().upper().split()), None for NaN
NormalizeSubjectName(name) ==
    IF name = NaNLabel THEN NaNLabel
    ELSE Join(<<" ">>, Split(Upper(Strip(name))))

\* app4.py / app5.py: the same without the isna test (only ever given a slice
\* of a header, which is a string)
NormalizeSubjectNameApp4(name) == Join(<<" ">>, Split(Upper(Strip(name))))

-----------------------------------------------------------------------------
(* Tables.  A table is [columns, rows]: columns are the headers that follow *)
(* the five columns main() filters on, and a row carries those five values *)
(* and one cell per further column.                                        *)

TimestampCol == <<"T", "i", "m", "e", "s", "t", "a", "m", "p">>

YearSemCol == <<"C", "h", "o", "o", "s", "e", " ", "y", "o", "u", "r", " ", "C", "u", "r",
                "r", "e", "n", "t", "/", "L", "a", "s", "t", " ", "A", "c", "a", "d", "e",
                "m", "i", "c", " ", "Y", "e", "a", "r", " ", "a", "n", "d", " ", "S", "e",
                "m", "e", "s", "t", "e", "r">>

GenderCol == <<"G", "e", "n", "d", "e", "r">>

BranchCol == <<"S", "e", "l", "e", "c", "t", " ", "B", "r", "a", "n", "c", "h", "/", "D",
               "i", "s", "c", "i", "p", "l", "i", "n", "e">>

SectionCol == <<"S", "e", "c", "t", "i", "o", "n", " ", "T", "y", "p", "e">>

FilterColumns == <<TimestampCol, YearSemCol, GenderCol, BranchCol, SectionCol>>

\* df.columns
DfColumns(t) == FilterColumns \o t.columns

\* df[column] for the j-th header of df.columns: its cells, row by row
ColumnValues(t, j) ==
    [i \in 1..Len(t.rows) |->
        CASE j = 1 -> t.rows[i].Timestamp
          [] j = 2 -> t.rows[i].YearSem
          [] j = 3 -> t.rows[i].Gender
          [] j = 4 -> t.rows[i].Branch
          [] j = 5 -> t.rows[i].Section
          [] OTHER -> t.rows[i].cells[j - 5]]

-----------------------------------------------------------------------------
(* Fractions and sums *)

RECURSIVE Gcd(_, _)
Gcd(a, b) == IF b = 0 THEN a ELSE Gcd(b, a % b)

\* the exact value of n / d (d > 0, n >= 0) in lowest terms
Frac(n, d) == <<n \div Gcd(n, d), d \div Gcd(n, d)>>

RECURSIVE Sum(_)
\* sum(scores)
Sum(s) == IF s = <<>> THEN 0 ELSE Head(s) + Sum(Tail(s))

-----------------------------------------------------------------------------
(* Floating point.  Python and numpy compute in IEEE 754 binary64: a float  *)
(* has 53 significant bits, and every operation returns the float nearest   *)
(* to the exact result, a tie going to the even significand.  A float is    *)
(* [m, p], the value m / 2^p, where m is a natural number written as the    *)
(* sequence of its digits in base 2^10, lowest first.  The operands are     *)
(* below 2^20.                                                              *)

Limb == 2 ^ 10

RECURSIVE BigOfInt(_)
BigOfInt(n) == IF n = 0 THEN <<>> ELSE <<n % Limb>> \o BigOfInt(n \div Limb)

RECURSIVE BigToInt(_)
BigToInt(b) == IF b = <<>> THEN 0 ELSE Head(b) + Limb * BigToInt(Tail(b))

RECURSIVE BigMulSmall(_, _, _)
\* b * k + carry
BigMulSmall(b, k, carry) ==
    IF b = <<>> THEN BigOfInt(carry)
    ELSE <<(Head(b) * k + carry) % Limb>>
         \o BigMulSmall(Tail(b), k, (Head(b) * k + carry) \div Limb)

RECURSIVE BigDivSmall(_, _)
\* quotient and remainder of b by d
BigDivSmall(b, d) ==
    IF b = <<>> THEN [q |-> <<>>, r |-> 0]
    ELSE LET high == BigDivSmall(Tail(b), d)
             v == high.r * Limb + Head(b)
         IN  [q |-> IF high.q = <<>> /\ v < d THEN <<>> ELSE <<v \div d>> \o high.q,
              r |-> v % d]

RECURSIVE BigIncr(_)
\* b + 1
BigIncr(b) ==
    IF b = <<>> THEN <<1>>
    ELSE IF Head(b) + 1 < Limb THEN <<Head(b) + 1>> \o Tail(b)
         ELSE <<0>> \o BigIncr(Tail(b))

\* b * 2^s
BigShl(b, s) ==
    IF b = <<>> THEN <<>>
    ELSE [n \in 1..(s \div 10) |-> 0] \o BigMulSmall(b, 2 ^ (s % 10), 0)

\* b \div 2^s
BigShr(b, s) ==
    IF s \div 10 >= Len(b) THEN <<>>
    ELSE BigDivSmall(SubSeq(b, s \div 10 + 1, Len(b)), 2 ^ (s % 10)).q

\* the bit of b that counts 2^i
BigBit(b, i) ==
    IF i \div 10 >= Len(b) THEN 0 ELSE (b[i \div 10 + 1] \div 2 ^ (i % 10)) % 2

\* the bits of b that count less than 2^i are all 0
BigLowZero(b, i) ==
    /\ \A k \in 1..Len(b) : k <= i \div 10 => b[k] = 0
    /\ i \div 10 < Len(b) => b[i \div 10 + 1] % 2 ^ (i % 10) = 0

RECURSIVE BitLen(_)
BitLen(n) == IF n = 0 THEN 0 ELSE 1 + BitLen(n \div 2)

\* the number of bits of b
BigBitLen(b) == IF b = <<>> THEN 0 ELSE 10 * (Len(b) - 1) + BitLen(b[Len(b)])

\* b / 2^s rounded to the nearest natural number, a tie to the even one
RoundShift(b, s) ==
    IF s = 0 THEN b
    ELSE IF /\ BigBit(b, s - 1) = 1
            /\ (~BigLowZero(b, s - 1) \/ BigBit(b, s) = 1)
         THEN BigIncr(BigShr(b, s))
         ELSE BigShr(b, s)

RECURSIVE Log2Floor(_, _)
\* the largest e with 2^e <= n / d, for n, d > 0
Log2Floor(n, d) ==
    IF n >= 2 * d THEN Log2Floor(n, 2 * d) + 1
    ELSE IF n < d THEN Log2Floor(2 * n, d) - 1
    ELSE 0

\* n / d for integers n >= 0 and d > 0: the float nearest to the quotient
FloatDiv(n, d) ==
    IF n = 0 THEN [m |-> <<>>, p |-> 0]
    ELSE LET p == 52 - Log2Floor(n, d)
             qr == CHOOSE x \in {BigDivSmall(BigShl(BigOfInt(n), p), d)} : TRUE
         IN  [m |-> IF 2 * qr.r > d \/ (2 * qr.r = d /\ BigBit(qr.q, 0) = 1)
                    THEN BigIncr(qr.q) ELSE qr.q,
              p |-> p]

\* x * k for a float x and a natural number k > 0: the float nearest to the
\* product
FloatMul(x, k) ==
    LET v == CHOOSE y \in {BigMulSmall(x.m, k, 0)} : TRUE
        s == BigBitLen(v) - 53
    IN  IF s <= 0 THEN [m |-> v, p |-> x.p]
        ELSE [m |-> RoundShift(v, s), p |-> x.p - s]

\* round(x, ndigits) of Python, in units of 10^-ndigits: the decimal number
\* of ndigits places nearest to the exact value of the float x, a tie to the
\* even neighbour
Round(x, ndigits) == BigToInt(RoundShift(BigMulSmall(x.m, 10 ^ ndigits, 0), x.p))

\* numpy.rint(x): the integer nearest to the float x, a tie to the even one
Rint(x) == BigToInt(RoundShift(x.m, x.p))

\* a plausible slip: the digits after the kept ones cut off
SeriesRoundDown(x, decimals) ==
    BigToInt(BigShr(FloatMul(x, 10 ^ decimals).m, FloatMul(x, 10 ^ decimals).p))

\* Series.round(decimals) on one float, in units of 10^-decimals: numpy
\* multiplies by 10^decimals, rounds to the nearest integer and divides
SeriesRound(x, decimals) == Rint(FloatMul(x, 10 ^ decimals))

-----------------------------------------------------------------------------
(* Column classification and aggregation *)

SubjectsMarker == <<"S", "u", "b", "j", "e", "c", "t", "s", " ", "[">>

SubjectMarker == <<"S", "u", "b", "j", "e", "c", "t", " ", "[">>

\* the result of the header tests for a column that is skipped
Excluded == NaNLabel

\* bool(subject_name)
Truthy(name) == name # NaNLabel /\ name # <<>>

\* a plausible slip: the label taken from the bracket the marker opens, up to
\* the next "]"
SubjectNameOfMarker(column) ==
    LET opens == {i \in 1..Len(column) :
                    \/ EndsWith(SubSeq(column, 1, i), SubjectMarker)
                    \/ EndsWith(SubSeq(column, 1, i), SubjectsMarker)}
    IN  IF opens = {} THEN Excluded
        ELSE LET open == CHOOSE i \in opens : \A q \in opens : i <= q
                 closes == {i \in (open + 1)..Len(column) : column[i] = "]"}
             IN  IF closes = {} THEN Excluded
                 ELSE LET close == CHOOSE i \in closes : \A q \in closes : i <= q
                          subject_name ==
                              NormalizeSubjectName(SubSeq(column, open + 1, close - 1))
                      IN  IF Truthy(subject_name) THEN subject_name ELSE Excluded

\* app7.py: the tests on one header and the key it yields
SubjectNameOf(column) ==
    IF Contains(column, SubjectsMarker) \/ Contains(column, SubjectMarker)
    THEN LET start_idx == Find(column, "[") + 1
             end_idx == Find(column, "]")
         IN  IF start_idx > 0 /\ end_idx > start_idx
             THEN LET subject_name == NormalizeSubjectName(Slice(column, start_idx, end_idx))
                  IN  IF Truthy(subject_name) THEN subject_name ELSE Excluded
             ELSE Excluded
    ELSE Excluded

\* app6.py: the same tests as app7.py
SubjectNameOfApp6(column) ==
    IF Contains(column, SubjectsMarker) \/ Contains(column, SubjectMarker)
    THEN LET start_idx == Find(column, "[") + 1
             end_idx == Find(column, "]")
         IN  IF start_idx > 0 /\ end_idx > start_idx
             THEN LET subject_name == NormalizeSubjectName(Slice(column, start_idx, end_idx))
                  IN  IF Truthy(subject_name) THEN subject_name ELSE Excluded
             ELSE Excluded
    ELSE Excluded

\* app5.py: no test of the normalized name
SubjectNameOfApp5(column) ==
    IF Contains(column, SubjectsMarker) \/ Contains(column, SubjectMarker)
    THEN LET start_idx == Find(column, "[") + 1
             end_idx == Find(column, "]")
         IN  IF start_idx > 0 /\ end_idx > start_idx
             THEN NormalizeSubjectNameApp4(Slice(column, start_idx, end_idx))
             ELSE Excluded
    ELSE Excluded

\* a plausible slip: the header has to end with "]"
SubjectNameOfApp4Closing(column) ==
    IF (Contains(column, SubjectsMarker) \/ Contains(column, SubjectMarker))
       /\ EndsWith(column, <<"]">>)
    THEN LET start_idx == Find(column, "[") + 1
             end_idx == Find(column, "]")
         IN  IF start_idx > 0 /\ end_idx > start_idx
             THEN NormalizeSubjectNameApp4(Slice(column, start_idx, end_idx))
             ELSE Excluded
    ELSE Excluded

\* app4.py: as app5.py with the test "']' in column" added
SubjectNameOfApp4(column) ==
    IF (Contains(column, SubjectsMarker) \/ Contains(column, SubjectMarker))
       /\ Contains(column, <<"]">>)
    THEN LET start_idx == Find(column, "[") + 1
             end_idx == Find(column, "]")
         IN  IF start_idx > 0 /\ end_idx > start_idx
             THEN NormalizeSubjectNameApp4(Slice(column, start_idx, end_idx))
             ELSE Excluded
    ELSE Excluded

\* app3.py: either marker at the start of the header, "]" at its end, and the
\* name column.split('[')[1].split(']')[0]
SubjectNameOfApp3(column) ==
    IF (StartsWith(column, SubjectsMarker) \/ StartsWith(column, SubjectMarker))
       /\ EndsWith(column, <<"]">>)
    THEN SplitOn(SplitOn(column, "[")[2], "]")[1]
    ELSE Excluded

\* app.py: the header tests and the name, column.split('[')[1].split(']')[0]
SubjectNameOfApp(column) ==
    IF StartsWith(column, SubjectsMarker) /\ EndsWith(column, <<"]">>)
    THEN SplitOn(SplitOn(column, "[")[2], "]")[1]
    ELSE Excluded

(* The headers that occur in the tables of this model *)

HdrSubjectDBMS == <<"S", "u", "b", "j", "e", "c", "t", " ", "[", "D", "B", "M", "S", "]">>

HdrSubjectsDbms ==
    <<"S", "u", "b", "j", "e", "c", "t", "s", " ", "[", " ", "d", "b", "m", "s", " ", "]">>

HdrSubjectOS == <<"S", "u", "b", "j", "e", "c", "t", " ", "[", "O", "S", "]">>

HdrName == <<"N", "a", "m", "e">>

KeyDBMS == <<"D", "B", "M", "S">>

KeyOS == <<"O", "S">>

\* the parts headers are assembled from: text before the marker, the marker or
\* a near miss of it, the bracketed label, the closing bracket and what follows
HeaderBefore ==
    {<<>>, <<"Q", " ">>, <<"]", " ">>, <<"[", "A", "]", " ">>, <<"Q", " ", "[", "A">>}

HeaderMarker ==
    {SubjectMarker, SubjectsMarker,
     <<"S", "u", "b", "j", "e", "c", "t">>,
     <<"s", "u", "b", "j", "e", "c", "t", " ", "[">>,
     <<"[">>}

HeaderLabel == {<<"O", "s">>, <<" ", "o", "s", " ">>, <<>>, <<" ">>}

HeaderAfter == {<<"]">>, <<>>, <<"]", " ", "x">>, <<"]", "]">>, <<" ", "[", "B", "]">>}

Headers ==
    {b \o m \o l \o a : b \in HeaderBefore, m \in HeaderMarker,
                        l \in HeaderLabel, a \in HeaderAfter}

AllHeaders ==
    Headers \cup {TimestampCol, YearSemCol, GenderCol, BranchCol, SectionCol,
                  HdrSubjectDBMS, HdrSubjectsDbms, HdrSubjectOS, HdrName}

\* the tests of each variant, header by header (the loop applies them to
\* every header of df.columns; they depend on the header alone)
SubjectNames ==
    [fn \in {"app7", "app6", "app5", "app4", "app3", "app"} |->
        [h \in AllHeaders |->
            CASE fn = "app7" -> SubjectNameOf(h)
              [] fn = "app6" -> SubjectNameOfApp6(h)
              [] fn = "app5" -> SubjectNameOfApp5(h)
              [] fn = "app4" -> SubjectNameOfApp4(h)
              [] fn = "app3" -> SubjectNameOfApp3(h)
              [] fn = "app" -> SubjectNameOfApp(h)]]

RECURSIVE DropNa(_)
\* scores.dropna().tolist(): the scores that are not None, in row order
DropNa(scores) ==
    IF scores = <<>> THEN <<>>
    ELSE IF Head(scores) = None THEN DropNa(Tail(scores))
         ELSE <<Head(scores)[1]>> \o DropNa(Tail(scores))

RECURSIVE Apply(_, _)
\* df[column].apply(convert_rating_to_score)
Apply(fn, cells) ==
    IF cells = <<>> THEN <<>>
    ELSE <<IF fn \in {"app7", "app6"} THEN ConvertRatingToScore(Head(cells))
           ELSE ConvertRatingToScoreApp(Head(cells))>> \o Apply(fn, Tail(cells))

\* df[column].apply(convert_rating_to_score).dropna().tolist()
ValidScores(fn, t, j) == DropNa(Apply(fn, ColumnValues(t, j)))

\* a plausible slip: the column's scores replace the subject's list
\* (as app.py does) instead of extending it
ExtendOverwrite(acc, name, valid_scores) == (name :> valid_scores) @@ acc

\* accumulated_scores.setdefault(subject_name, []).extend(valid_scores)
Extend(acc, name, valid_scores) ==
    (name :> ((IF name \in DOMAIN acc THEN acc[name] ELSE <<>>) \o valid_scores)) @@ acc

\* the empty dict
EmptyDict == <<>>

\* the body of the loop for one column whose header passed the tests:
\* app.py sets the subject's list, the later variants extend it
AddColumn(fn, acc, subject_name, valid_scores) ==
    IF valid_scores = <<>> THEN acc
    ELSE IF fn = "app" THEN (subject_name :> valid_scores) @@ acc
    ELSE Extend(acc, subject_name, valid_scores)

RECURSIVE AccumulateByContent(_, _, _, _)
\* a plausible slip: a column all of whose cells are rating labels is taken
\* for a rating column whatever its header is (the first column holds
\* timestamps, never a label)
AccumulateByContent(fn, t, j, acc) ==
    IF j > Len(DfColumns(t)) THEN acc
    ELSE LET rated == /\ j # 1
                      /\ t.rows # <<>>
                      /\ \A i \in 1..Len(t.rows) :
                            ColumnValues(t, j)[i] \in CanonicalLabels
             key == IF SubjectNames[fn][DfColumns(t)[j]] # Excluded
                    THEN SubjectNames[fn][DfColumns(t)[j]]
                    ELSE IF rated THEN NormalizeSubjectNameApp4(DfColumns(t)[j])
                    ELSE Excluded
         IN  IF key = Excluded THEN AccumulateByContent(fn, t, j + 1, acc)
             ELSE AccumulateByContent(fn, t, j + 1,
                      AddColumn(fn, acc, key, ValidScores(fn, t, j)))

RECURSIVE Accumulate(_, _, _, _)
\* the loop over df.columns from the j-th header on
Accumulate(fn, t, j, acc) ==
    IF j > Len(DfColumns(t)) THEN acc
    ELSE IF SubjectNames[fn][DfColumns(t)[j]] = Excluded
         THEN Accumulate(fn, t, j + 1, acc)
         ELSE Accumulate(fn, t, j + 1,
                  AddColumn(fn, acc, SubjectNames[fn][DfColumns(t)[j]],
                            ValidScores(fn, t, j)))

\* sum(scores) / len(scores)
Mean(scores) == Frac(Sum(scores), Len(scores))

RECURSIVE AverageScores(_, _)
\* the second loop: average_scores, over the subjects with a non-empty list
AverageScores(acc, keys) ==
    IF keys = {} THEN EmptyDict
    ELSE LET k == CHOOSE x \in keys : TRUE
         IN  IF acc[k] # <<>>
             THEN (k :> Mean(acc[k])) @@ AverageScores(acc, keys \ {k})
             ELSE AverageScores(acc, keys \ {k})

RECURSIVE SubjectScores(_, _)
\* the second loop: subject_scores
SubjectScores(acc, keys) ==
    IF keys = {} THEN EmptyDict
    ELSE LET k == CHOOSE x \in keys : TRUE
         IN  IF acc[k] # <<>>
             THEN (k :> acc[k]) @@ SubjectScores(acc, keys \ {k})
             ELSE SubjectScores(acc, keys \ {k})

\* (average_scores, subject_scores) of the accumulated lists
Averages(acc) == <<AverageScores(acc, DOMAIN acc), SubjectScores(acc, DOMAIN acc)>>

\* calculate_average_scores of the variant fn
Calculate(fn, t) ==
    CHOOSE r \in {Averages(acc) : acc \in {Accumulate(fn, t, 1, EmptyDict)}} : TRUE

\* app7.py (and app6.py): (average_scores, subject_scores)
CalculateAverageScores(t) == Calculate("app7", t)

\* app6.py
CalculateAverageScoresApp6(t) == Calculate("app6", t)

CalculateAverageScoresApp5(t) == Calculate("app5", t)

CalculateAverageScoresApp4(t) == Calculate("app4", t)

\* app3.py
CalculateAverageScoresApp3(t) == Calculate("app3", t)

CalculateAverageScoresApp(t) == Calculate("app", t)

-----------------------------------------------------------------------------
(* The session before any upload: main() renders the uploader and stops *)

NoTable == [columns |-> <<>>, rows |-> <<>>]

AppIdle ==
    /\ df = NoTable
    /\ from_date = 0
    /\ to_date = 0
    /\ selected_year_semesters = {}
    /\ selected_genders = {}
    /\ selected_branches = {}
    /\ selected_section_types = {}
    /\ filtered_df = <<>>
    /\ average_scores = EmptyDict
    /\ subject_scores = EmptyDict
    /\ total_responses = 0
    /\ scores_data = EmptyDict
    /\ dist_df = EmptyDict
    /\ view = "upload"
    /\ uploads = 0
    /\ workers = <<>>

PureIdle == call = [fn |-> "none", arg |-> <<>>] /\ ret = None /\ pc = "idle"

-----------------------------------------------------------------------------
(* SpecScore: convert_rating_to_score applied to one cell *)

CaseVariants ==
    CanonicalLabels
    \cup {"excellent", "very good", "good", "fair", "poor"}
    \cup {"EXCELLENT", "VERY GOOD", "GOOD", "FAIR", "POOR"}

Padding == {"", " ", "\t"}

\* the cells tried: the canonical labels, their case variants, each with
\* whitespace around it, other text, the empty string and the missing value
Ratings ==
    {p \o c \o q : p \in Padding, c \in CaseVariants, q \in Padding}
    \cup {NaN, "", "N/A", "Very  Good", "VeryGood", "Average", "5", "0", "None"}

InitScore ==
    /\ call \in {[fn |-> f, arg |-> r] : f \in {"app7", "app"}, r \in Ratings}
    /\ ret = None
    /\ pc = "call"
    /\ AppIdle

CallConvertRatingToScore ==
    /\ pc = "call"
    /\ call.fn = "app7"
    /\ ret' = ConvertRatingToScore(call.arg)
    /\ pc' = "done"
    /\ UNCHANGED <<call, appVars>>

CallConvertRatingToScoreApp ==
    /\ pc = "call"
    /\ call.fn = "app"
    /\ ret' = ConvertRatingToScoreApp(call.arg)
    /\ pc' = "done"
    /\ UNCHANGED <<call, appVars>>

NextScore == CallConvertRatingToScore \/ CallConvertRatingToScoreApp

SpecScore == InitScore /\ [][NextScore]_vars

-----------------------------------------------------------------------------
(* SpecNorm: normalize_subject_name applied to a label, then to its result *)

\* bound: the longest label tried
MaxLabelLen == 4

\* an ASCII letter of either case, a letter beyond ASCII, the capital sharp s
\* (whose lower case "ß" has the upper case "SS"), and two kinds of whitespace
LabelChars == {"d", "B", "é", "ẞ", " ", "\r"}

RECURSIVE SeqsUpTo(_, _)
\* the sequences over S of length at most n
SeqsUpTo(S, n) ==
    IF n = 0 THEN {<<>>}
    ELSE LET shorter == SeqsUpTo(S, n - 1)
         IN  shorter \cup {Append(w, c) : w \in shorter, c \in S}

Labels == SeqsUpTo(LabelChars, MaxLabelLen)

InitNorm ==
    /\ call \in {[fn |-> "app7", arg |-> a] : a \in Labels \cup {NaNLabel}}
                \cup {[fn |-> "app4", arg |-> a] : a \in Labels}
    /\ ret = None
    /\ pc = "call"
    /\ AppIdle

CallNormalizeSubjectName ==
    /\ pc = "call"
    /\ call.fn = "app7"
    /\ ret' = NormalizeSubjectName(call.arg)
    /\ pc' = "done"
    /\ UNCHANGED <<call, appVars>>

CallNormalizeSubjectNameApp4 ==
    /\ pc = "call"
    /\ call.fn = "app4"
    /\ ret' = NormalizeSubjectNameApp4(call.arg)
    /\ pc' = "done"
    /\ UNCHANGED <<call, appVars>>

\* the result is normalized once more, as when a key is fed back as a label
NormalizeAgain ==
    /\ pc = "done"
    /\ call' = [call EXCEPT !.arg = ret]
    /\ ret' = IF call.fn = "app7" THEN NormalizeSubjectName(ret)
              ELSE NormalizeSubjectNameApp4(ret)
    /\ pc' = "again"
    /\ UNCHANGED appVars

NextNorm == CallNormalizeSubjectName \/ CallNormalizeSubjectNameApp4 \/ NormalizeAgain

SpecNorm == InitNorm /\ [][NextNorm]_vars

-----------------------------------------------------------------------------
(* Claims about the rating scale *)

\* C2: convert_rating_to_score maps exactly Excellent, Very Good, Good, Fair,
\* Poor to 5, 4, 3, 2, 1 and returns None for every other input (the missing
\* value, the empty string, a label in another case or with whitespace around
\* it); it never returns 0.
C2_ExactlyFiveLabels ==
    pc = "done" =>
        /\ (call.arg = "Excellent") = (ret = <<5>>)
        /\ (call.arg = "Very Good") = (ret = <<4>>)
        /\ (call.arg = "Good") = (ret = <<3>>)
        /\ (call.arg = "Fair") = (ret = <<2>>)
        /\ (call.arg = "Poor") = (ret = <<1>>)
        /\ (call.arg \notin {"Excellent", "Very Good", "Good", "Fair", "Poor"}) = (ret = None)
        /\ ret # <<0>>

\* a label in another case was looked up by app7's function and gave None
C2_Witness ==
    pc = "done" /\ call.fn = "app7" /\ call.arg = " excellent" /\ ret = None

-----------------------------------------------------------------------------
(* Claims about the subject key normalizer *)

\* C7: normalize_subject_name is idempotent: normalizing the result of a
\* normalization returns it unchanged.
C7_Idempotent == pc = "again" => ret = call.arg

\* a label with mixed case and whitespace was normalized twice
C7_Witness ==
    pc = "again" /\ call.fn = "app7" /\ call.arg = <<"D", " ", "B">> /\ ret = call.arg

\* indices of the characters of s that are not whitespace, ascending
RECURSIVE NonWsFrom(_, _)
NonWsFrom(s, i) ==
    IF i > Len(s) THEN <<>>
    ELSE IF s[i] \in Whitespace THEN NonWsFrom(s, i + 1)
         ELSE <<i>> \o NonWsFrom(s, i + 1)

NonWs(s) == NonWsFrom(s, 1)

\* r is a with the surrounding whitespace removed, every internal run of
\* whitespace replaced by one space and the letters upper-cased (upper-casing
\* leaves whitespace as it is and yields none)
IsNormalFormOf(r, a) ==
    LET ua == Upper(a)
        pr == NonWs(r)
        pa == NonWs(ua)
    IN  /\ Len(pr) = Len(pa)
        /\ \A k \in 1..Len(pr) : r[pr[k]] = ua[pa[k]]
        /\ \A i \in 1..Len(r) : r[i] \in Whitespace => r[i] = " "
        /\ r # <<>> => r[1] # " " /\ r[Len(r)] # " "
        /\ \A k \in 1..(Len(pr) - 1) :
              /\ pr[k + 1] - pr[k] \in {1, 2}
              /\ (pr[k + 1] - pr[k] = 2) = (pa[k + 1] - pa[k] > 1)
        /\ Len(pr) = 0 => r = <<>>

\* the labels one elementary change of whitespace away from a: one more
\* whitespace character at either end, one more whitespace character inside
\* a run of whitespace, one less of either
WsEdits(a) ==
    {<<w>> \o a : w \in Whitespace}
    \cup {a \o <<w>> : w \in Whitespace}
    \cup {SubSeq(a, 1, i) \o <<w>> \o SubSeq(a, i + 1, Len(a)) :
            i \in {j \in 1..Len(a) : a[j] \in Whitespace}, w \in Whitespace}
    \cup {SubSeq(a, 1, i - 1) \o SubSeq(a, i + 1, Len(a)) :
            i \in {j \in 1..Len(a) : a[j] \in Whitespace
                     /\ (j = 1 \/ j = Len(a) \/ a[j - 1] \in Whitespace
                         \/ a[j + 1] \in Whitespace)}}

\* the labels that differ from a in the case of one letter taken from L
CaseEdits(a, L) ==
    {SubSeq(a, 1, i - 1) \o SwapCaseChar(a[i]) \o SubSeq(a, i + 1, Len(a)) :
        i \in {j \in 1..Len(a) : a[j] \in L}}

\* every letter
AnyLetter ==
    {LowerLetters[i] : i \in DOMAIN LowerLetters}
    \cup {UpperLetters[i] : i \in DOMAIN UpperLetters}

\* the letters whose two cases have one upper-case form; the capital sharp s
\* is none: its lower case "ß" has the upper-case form "SS"
PairedLetter == AnyLetter \ {"ẞ"}

NormalizeBy(fn, a) ==
    IF fn = "app7" THEN NormalizeSubjectName(a) ELSE NormalizeSubjectNameApp4(a)

\* C8 as amended: normalize_subject_name returns the label stripped, with
\* every internal whitespace run replaced by one space and upper-cased by
\* str.upper(); labels that differ only in surrounding whitespace, in the
\* length of internal whitespace runs or in the case of letters whose two
\* cases have one upper-case form yield the same key.
C8_NormalForm ==
    (pc = "done" /\ call.arg # NaNLabel) =>
        /\ IsNormalFormOf(ret, call.arg)
        /\ \A b \in WsEdits(call.arg) \cup CaseEdits(call.arg, PairedLetter) :
              NormalizeBy(call.fn, b) = ret

\* " d\rB" was normalized to "D B"
C8_Witness ==
    /\ pc = "done"
    /\ call.fn = "app7"
    /\ call.arg = <<" ", "d", "\r", "B">>
    /\ ret = <<"D", " ", "B">>

\* C8: normalize_subject_name returns the label stripped, with every internal
\* whitespace run replaced by one space and upper-cased; labels that differ
\* only in letter case, surrounding whitespace or the length of internal
\* whitespace runs yield the same key.
C8_AnyCaseSameKey ==
    (pc = "done" /\ call.arg # NaNLabel) =>
        /\ IsNormalFormOf(ret, call.arg)
        /\ \A b \in WsEdits(call.arg) \cup CaseEdits(call.arg, AnyLetter) :
              NormalizeBy(call.fn, b) = ret

-----------------------------------------------------------------------------
(* SpecCalc: calculate_average_scores applied to one table *)

\* bound: the most rows of a table handed to calculate_average_scores
MaxRows == 2

\* a row that carries only rating cells
BlankRow(cells) ==
    [Timestamp |-> 0, YearSem |-> NaN, Gender |-> NaN, Branch |-> NaN,
     Section |-> NaN, cells |-> cells]

\* the cells tried in a rating column
CellValues == {"Excellent", "Good", NaN, "N/A"}

\* two differently labelled columns of one subject and a column without marker
PooledColumns == <<HdrSubjectDBMS, HdrSubjectsDbms, HdrName>>

\* two subjects
TwoSubjects == <<HdrSubjectDBMS, HdrSubjectOS>>

PooledTables ==
    {[columns |-> PooledColumns, rows |-> rs] :
        rs \in SeqsUpTo({BlankRow(<<a, b, "Good">>) : a, b \in CellValues}, MaxRows)}

TwoSubjectTables ==
    {[columns |-> TwoSubjects, rows |-> rs] :
        rs \in SeqsUpTo({BlankRow(<<a, b>>) : a, b \in CellValues}, MaxRows)}

\* one column, one respondent who rated it Excellent
OneColumnTables ==
    {[columns |-> <<h>>, rows |-> <<BlankRow(<<"Excellent">>)>>] : h \in Headers}

CalcTables == PooledTables \cup TwoSubjectTables \cup OneColumnTables

InitCalc ==
    /\ call \in {[fn |-> f, arg |-> t] :
                    f \in {"app7", "app6", "app5", "app4", "app3", "app"},
                    t \in CalcTables}
    /\ ret = None
    /\ pc = "call"
    /\ AppIdle

CallCalculateAverageScores ==
    /\ pc = "call"
    /\ call.fn = "app7"
    /\ ret' = CalculateAverageScores(call.arg)
    /\ pc' = "done"
    /\ UNCHANGED <<call, appVars>>

CallCalculateAverageScoresApp6 ==
    /\ pc = "call"
    /\ call.fn = "app6"
    /\ ret' = CalculateAverageScoresApp6(call.arg)
    /\ pc' = "done"
    /\ UNCHANGED <<call, appVars>>

CallCalculateAverageScoresApp3 ==
    /\ pc = "call"
    /\ call.fn = "app3"
    /\ ret' = CalculateAverageScoresApp3(call.arg)
    /\ pc' = "done"
    /\ UNCHANGED <<call, appVars>>

CallCalculateAverageScoresApp5 ==
    /\ pc = "call"
    /\ call.fn = "app5"
    /\ ret' = CalculateAverageScoresApp5(call.arg)
    /\ pc' = "done"
    /\ UNCHANGED <<call, appVars>>

CallCalculateAverageScoresApp4 ==
    /\ pc = "call"
    /\ call.fn = "app4"
    /\ ret' = CalculateAverageScoresApp4(call.arg)
    /\ pc' = "done"
    /\ UNCHANGED <<call, appVars>>

CallCalculateAverageScoresApp ==
    /\ pc = "call"
    /\ call.fn = "app"
    /\ ret' = CalculateAverageScoresApp(call.arg)
    /\ pc' = "done"
    /\ UNCHANGED <<call, appVars>>

NextCalc ==
    \/ CallCalculateAverageScores
    \/ CallCalculateAverageScoresApp6
    \/ CallCalculateAverageScoresApp3
    \/ CallCalculateAverageScoresApp5
    \/ CallCalculateAverageScoresApp4
    \/ CallCalculateAverageScoresApp

SpecCalc == InitCalc /\ [][NextCalc]_vars

-----------------------------------------------------------------------------
(* Claims about calculate_average_scores *)

\* the key the called variant gives a header, Excluded for a skipped column
KeyOf(fn, column) == SubjectNames[fn][column]

\* the cells <<row, column>> of t that hold a canonical rating label in a
\* column whose header yields key k
ScoreCells(t, fn, k) ==
    {c \in (1..Len(t.rows)) \X (1..Len(DfColumns(t))) :
        /\ KeyOf(fn, DfColumns(t)[c[2]]) = k
        /\ ColumnValues(t, c[2])[c[1]] \in CanonicalLabels}

RECURSIVE SumOfCells(_, _)
SumOfCells(t, cells) ==
    IF cells = {} THEN 0
    ELSE LET c == CHOOSE x \in cells : TRUE
         IN  rating_to_score[ColumnValues(t, c[2])[c[1]]] + SumOfCells(t, cells \ {c})

\* C1: for every key of the result of calculate_average_scores (app4 .. app7)
\* the mean is the sum of the scores of the cells holding a canonical label,
\* over every column whose header yields the key and every row, divided by
\* the number of those cells; other cells count in neither.
C1_MeanIsSumOverCount ==
    (pc = "done" /\ call.fn \in {"app7", "app6", "app5", "app4"}) =>
        \A k \in DOMAIN ret[1] :
            LET cells == ScoreCells(call.arg, call.fn, k)
            IN  /\ cells # {}
                /\ ret[1][k] = Frac(SumOfCells(call.arg, cells), Cardinality(cells))

\* two pooled columns, one missing and one unrecognized cell: (5 + 3) / 2
C1_Witness ==
    /\ pc = "done"
    /\ call.fn = "app7"
    /\ call.arg.columns = PooledColumns
    /\ call.arg.rows = <<BlankRow(<<"Excellent", NaN, "Good">>),
                         BlankRow(<<"N/A", "Good", "Good">>)>>
    /\ DOMAIN ret[1] = {KeyDBMS}
    /\ ret[1][KeyDBMS] = <<4, 1>>

\* C5: a subject all of whose cells are missing or unrecognized, in every
\* column of the subject and every row, is a key of neither returned mapping.
C5_UnratedSubjectOmitted ==
    pc = "done" =>
        \A j \in 1..Len(DfColumns(call.arg)) :
            LET k == KeyOf(call.fn, DfColumns(call.arg)[j])
            IN  (k # Excluded /\ ScoreCells(call.arg, call.fn, k) = {}) =>
                    (k \notin DOMAIN ret[1] /\ k \notin DOMAIN ret[2])

\* DBMS has only a missing and an unrecognized cell, OS is rated: only OS is
\* reported
C5_Witness ==
    /\ pc = "done"
    /\ call.fn = "app7"
    /\ call.arg.columns = TwoSubjects
    /\ call.arg.rows = <<BlankRow(<<NaN, "Good">>), BlankRow(<<"N/A", "Excellent">>)>>
    /\ DOMAIN ret[1] = {KeyOS}
    /\ DOMAIN ret[2] = {KeyOS}

RECURSIVE CanonicalScores(_, _, _)
\* the scores of the canonical labels of column j, from row i on
CanonicalScores(t, j, i) ==
    IF i > Len(t.rows) THEN <<>>
    ELSE (IF ColumnValues(t, j)[i] \in CanonicalLabels
          THEN <<rating_to_score[ColumnValues(t, j)[i]]>> ELSE <<>>)
         \o CanonicalScores(t, j, i + 1)

RECURSIVE PooledScores(_, _, _, _)
\* the canonical scores of the columns of key k, column after column
PooledScores(t, fn, k, j) ==
    IF j > Len(DfColumns(t)) THEN <<>>
    ELSE (IF KeyOf(fn, DfColumns(t)[j]) = k THEN CanonicalScores(t, j, 1) ELSE <<>>)
         \o PooledScores(t, fn, k, j + 1)

HasMarker(column) ==
    Contains(column, SubjectsMarker) \/ Contains(column, SubjectMarker)

\* C6: in app4 .. app7 the rating columns whose labels normalize to one key
\* make one entry whose score list is the concatenation of the valid scores
\* of those columns; a header without the marker contributes to no entry.
C6_PooledColumnsOneEntry ==
    (pc = "done" /\ call.fn \in {"app7", "app6", "app5", "app4"}) =>
        /\ \A k \in DOMAIN ret[2] : ret[2][k] = PooledScores(call.arg, call.fn, k, 1)
        /\ \A j \in 1..Len(DfColumns(call.arg)) :
              ~HasMarker(DfColumns(call.arg)[j]) =>
                  KeyOf(call.fn, DfColumns(call.arg)[j]) \notin DOMAIN ret[2]

\* "Subject [DBMS]" and "Subjects [ dbms ]" make the one entry DBMS, whose list
\* is the first column's scores followed by the second's; "Name" makes none
C6_Witness ==
    /\ pc = "done"
    /\ call.fn = "app7"
    /\ call.arg.columns = PooledColumns
    /\ call.arg.rows = <<BlankRow(<<"Good", "Excellent", "Good">>),
                         BlankRow(<<"Excellent", "Good", "Good">>)>>
    /\ DOMAIN ret[2] = {KeyDBMS}
    /\ ret[2][KeyDBMS] = <<3, 5, 5, 3>>

\* the labels of the bracketed segments of h that a marker introduces and a
\* later "]" closes
MarkedSegments(h) ==
    {Slice(h, c[1], c[2] - 1) :
        c \in {d \in (1..Len(h)) \X (1..Len(h)) :
                 /\ d[1] < d[2]
                 /\ h[d[1]] = "["
                 /\ h[d[2]] = "]"
                 /\ \A q \in (d[1] + 1)..(d[2] - 1) : h[q] # "]"
                 /\ \/ EndsWith(SubSeq(h, 1, d[1]), SubjectMarker)
                    \/ EndsWith(SubSeq(h, 1, d[1]), SubjectsMarker)}}

\* C9: a header is treated as a rating column if and only if it contains a
\* bracketed segment introduced by "Subject [" or "Subjects [" and closed by a
\* "]", for every header, also with a "]" or another "[" before the marker.
\* (A segment whose label is blank is left out of the statement: the spec
\* excludes such a column elsewhere.)
C9_RatingIffMarkedSegment ==
    (pc = "done" /\ call.fn = "app7" /\ Len(call.arg.columns) = 1
                 /\ call.arg.rows = <<BlankRow(<<"Excellent">>)>>) =>
        LET h == call.arg.columns[1]
            treated == DOMAIN ret[1] # {}
        IN  \/ \E l \in MarkedSegments(h) : Strip(l) = <<>>
            \/ treated = (MarkedSegments(h) # {})

\* C22: neither returned mapping has the empty string as a key, whatever the
\* header and the cells are (app7.py and app5.py).
C22_NoEmptyKey ==
    (pc = "done" /\ call.fn \in {"app7", "app5"}) =>
        /\ <<>> \notin DOMAIN ret[1]
        /\ <<>> \notin DOMAIN ret[2]

\* the text strictly between the first "[" and the first "]" of a header, if
\* the first "[" comes first; NaNLabel otherwise
BracketLabel(h) ==
    LET opens == {i \in 1..Len(h) : h[i] = "["}
        closes == {i \in 1..Len(h) : h[i] = "]"}
    IN  IF opens = {} \/ closes = {} THEN NaNLabel
        ELSE LET a == CHOOSE i \in opens : \A q \in opens : i <= q
                 b == CHOOSE i \in closes : \A q \in closes : i <= q
             IN  IF a < b THEN SubSeq(h, a + 1, b - 1) ELSE NaNLabel

\* C23: the key of a header accepted as a rating column is the normalization
\* of the text strictly between the first "[" and the first "]" of the whole
\* header, also when that "[" is not the marker's.
C23_KeyFromFirstBrackets ==
    (pc = "done" /\ call.fn = "app7" /\ Len(call.arg.columns) = 1
                 /\ DOMAIN ret[1] # {}) =>
        /\ BracketLabel(call.arg.columns[1]) # NaNLabel
        /\ DOMAIN ret[1] = {NormalizeSubjectName(BracketLabel(call.arg.columns[1]))}
        /\ \A k \in DOMAIN ret[1] : IsNormalFormOf(k, BracketLabel(call.arg.columns[1]))

\* "[A] Subject [Os]" is a rating column of subject "A"
C23_Witness ==
    /\ pc = "done"
    /\ call.fn = "app7"
    /\ call.arg.columns = <<<<"[", "A", "]", " ">> \o SubjectMarker \o <<"O", "s", "]">>>>
    /\ DOMAIN ret[1] = {<<"A">>}

\* C25: in every variant the two returned mappings have the same keys, every
\* score list is non-empty and holds integers from 1 to 5 only, and every
\* mean lies between 1 and 5.
C25_ResultWellFormed ==
    (pc = "done"
        /\ call.fn \in {"app7", "app6", "app5", "app4", "app3", "app"}) =>
        /\ DOMAIN ret[1] = DOMAIN ret[2]
        /\ \A k \in DOMAIN ret[2] :
              /\ ret[2][k] # <<>>
              /\ \A n \in 1..Len(ret[2][k]) : ret[2][k][n] \in 1..5
              /\ ret[1][k][2] > 0
              /\ ret[1][k][2] <= ret[1][k][1]
              /\ ret[1][k][1] <= 5 * ret[1][k][2]

\* app3.py on two subjects: DBMS rated Excellent and Good (mean 4), OS rated
\* Good once
C25_Witness ==
    /\ pc = "done"
    /\ call.fn = "app3"
    /\ call.arg.columns = TwoSubjects
    /\ call.arg.rows = <<BlankRow(<<"Excellent", "Good">>), BlankRow(<<"Good", NaN>>)>>
    /\ DOMAIN ret[1] = {KeyDBMS, KeyOS}
    /\ ret[1][KeyDBMS] = <<4, 1>>
    /\ ret[2][KeyOS] = <<3>>

\* no header with a marker has a bracket label of whitespace only
NoBlankLabel(t) ==
    \A j \in 1..Len(DfColumns(t)) :
        LET label == BracketLabel(DfColumns(t)[j])
        IN  ~ /\ HasMarker(DfColumns(t)[j])
              /\ label # NaNLabel
              /\ label # <<>>
              /\ \A n \in 1..Len(label) : label[n] \in Whitespace

\* C27: on every table calculate_average_scores of app4.py and of app5.py
\* return the same mappings, those of app6.py and of app7.py return the same
\* mappings, and all four do whenever no rating header has a bracket label of
\* whitespace only.
C27_VariantsAgree ==
    (pc = "done" /\ call.fn = "app7") =>
        /\ CalculateAverageScoresApp4(call.arg) = CalculateAverageScoresApp5(call.arg)
        /\ CalculateAverageScoresApp6(call.arg) = ret
        /\ NoBlankLabel(call.arg) => CalculateAverageScoresApp5(call.arg) = ret

\* "Q Subjects [ os ] x": text before the marker and after the "]", a padded
\* lower-case label; every variant from app4.py on reports the subject OS
C27_Witness ==
    /\ pc = "done"
    /\ call.fn = "app7"
    /\ call.arg.columns =
           <<<<"Q", " ">> \o SubjectsMarker \o <<" ", "o", "s", " ", "]", " ", "x">>>>
    /\ DOMAIN ret[1] = {KeyOS}
    /\ DOMAIN CalculateAverageScoresApp4(call.arg)[1] = {KeyOS}

-----------------------------------------------------------------------------
(* Score distribution of one subject *)

\* a plausible slip: one entry for each score of the scale, occurring or not
UniqueZeroFilled(scores) == <<1, 2, 3, 4, 5>>

RECURSIVE Unique(_)
\* the distinct values of a list in the order of their first occurrence
Unique(scores) ==
    IF scores = <<>> THEN <<>>
    ELSE LET rest == Unique(SubSeq(scores, 1, Len(scores) - 1))
             last == scores[Len(scores)]
         IN  IF \E n \in 1..Len(rest) : rest[n] = last THEN rest
             ELSE Append(rest, last)

\* the number of occurrences of v
CountOf(scores, v) == Cardinality({n \in 1..Len(scores) : scores[n] = v})

\* entry a stands before entry b: by count, larger first (value_counts) or by
\* score, smaller first (sort_index, sort_values('Score'))
Before(a, b, by) ==
    IF by = "count" THEN a.Count > b.Count ELSE a.Score < b.Score

RECURSIVE InsertEntry(_, _, _)
\* e put into the sorted list after the entries that do not stand behind it
InsertEntry(e, sorted, by) ==
    IF sorted = <<>> THEN <<e>>
    ELSE IF Before(e, Head(sorted), by) THEN <<e>> \o sorted
         ELSE <<Head(sorted)>> \o InsertEntry(e, Tail(sorted), by)

RECURSIVE SortEntries(_, _)
\* a stable sort of the entries
SortEntries(entries, by) ==
    IF entries = <<>> THEN <<>>
    ELSE InsertEntry(entries[Len(entries)],
                     SortEntries(SubSeq(entries, 1, Len(entries) - 1), by), by)

RECURSIVE CountEntries(_, _)
\* one entry (value, number of occurrences) for each of the values
CountEntries(scores, values) ==
    IF values = <<>> THEN <<>>
    ELSE <<[Score |-> Head(values), Count |-> CountOf(scores, Head(values))]>>
         \o CountEntries(scores, Tail(values))

\* pd.Series(scores).value_counts(): the most frequent value first, equally
\* frequent values in the order of their first occurrence
ValueCounts(scores) == SortEntries(CountEntries(scores, Unique(scores)), "count")

\* score_dist = pd.Series(scores).value_counts().sort_index()
ScoreDist(scores) == SortEntries(ValueCounts(scores), "score")

RECURSIVE SumCounts(_)
\* total = sum(score_dist.values)
SumCounts(score_dist) ==
    IF score_dist = <<>> THEN 0
    ELSE Head(score_dist).Count + SumCounts(Tail(score_dist))

RECURSIVE ScorePercentages(_, _)
\* (score_dist / total * 100).round(1), in tenths of a percent
ScorePercentages(score_dist, total) ==
    IF score_dist = <<>> THEN <<>>
    ELSE <<SeriesRound(FloatMul(FloatDiv(Head(score_dist).Count, total), 100), 1)>>
         \o ScorePercentages(Tail(score_dist), total)

RECURSIVE Zip(_, _)
\* pd.DataFrame({'Score': ..., 'Count': ..., 'Percentage': ...})
Zip(score_dist, score_percentages) ==
    IF score_dist = <<>> THEN <<>>
    ELSE <<[Score |-> Head(score_dist).Score, Count |-> Head(score_dist).Count,
            Percentage |-> Head(score_percentages)]>>
         \o Zip(Tail(score_dist), Tail(score_percentages))

\* dist_df of one subject's scores
DistDf(scores) ==
    CHOOSE d \in
        {Zip(score_dist, ScorePercentages(score_dist, SumCounts(score_dist))) :
            score_dist \in {ScoreDist(scores)}} : TRUE

-----------------------------------------------------------------------------
(* SpecDist: the score distribution of one list of scores *)

\* bound: the longest freely ordered beginning of a score list
MaxHead == 4

\* bound: the longest run of one score that ends a score list
MaxRun == 12

\* v, k times
Run(v, k) == [n \in 1..k |-> v]

\* lists of 80 scores in which a score occurs 23, 49 or 51 times: the exact
\* percentage ends in 5 hundredths and the float computed for it does not
TieLists == {Run(1, k) \o Run(5, 80 - k) : k \in {23, 49, 51}}

\* the score lists tried: a freely ordered beginning followed by a run of one
\* score, and the lists of 80; a subject's list is never empty
ScoreLists ==
    ({h \o Run(v, k) :
        h \in SeqsUpTo(1..5, MaxHead), v \in 1..5, k \in 0..MaxRun}
     \ {<<>>})
    \cup TieLists

InitDist ==
    /\ call \in {[fn |-> "dist", arg |-> l] : l \in ScoreLists}
    /\ ret = None
    /\ pc = "call"
    /\ AppIdle

CallDistDf ==
    /\ pc = "call"
    /\ call.fn = "dist"
    /\ ret' = DistDf(call.arg)
    /\ pc' = "done"
    /\ UNCHANGED <<call, appVars>>

NextDist == CallDistDf

SpecDist == InitDist /\ [][NextDist]_vars

-----------------------------------------------------------------------------
(* Claims about the score distribution *)

\* C16: the distribution of a score list has exactly one entry for each score
\* that occurs in the list and none for a score that does not, the entry's
\* count is the number of occurrences (the counts sum to the length of the
\* list), and the entries are in ascending order of score.
C16_OneEntryPerOccurringScore ==
    (pc = "done" /\ call.fn = "dist") =>
        /\ \A v \in 1..5 :
              Cardinality({n \in 1..Len(ret) : ret[n].Score = v}) =
                  (IF \E m \in 1..Len(call.arg) : call.arg[m] = v THEN 1 ELSE 0)
        /\ \A n \in 1..Len(ret) :
              /\ ret[n].Score \in 1..5
              /\ ret[n].Count =
                     Cardinality({m \in 1..Len(call.arg) : call.arg[m] = ret[n].Score})
        /\ SumCounts(ret) = Len(call.arg)
        /\ \A m, n \in 1..Len(ret) : m < n => ret[m].Score < ret[n].Score

\* [5, 5, 3, 1] gives (1, 1), (3, 1), (5, 2): no entry for 2 and 4
C16_Witness ==
    /\ pc = "done"
    /\ call.fn = "dist"
    /\ call.arg = <<5, 5, 3, 1>>
    /\ Len(ret) = 3
    /\ <<ret[1].Score, ret[1].Count>> = <<1, 1>>
    /\ <<ret[2].Score, ret[2].Count>> = <<3, 1>>
    /\ <<ret[3].Score, ret[3].Count>> = <<5, 2>>

\* q / d rounded to the nearest integer, a tie upwards
RoundHalfUp(q, d) == (2 * q + d) \div (2 * d)

\* C17: the percentage of each entry is 100 * count / total rounded to one
\* decimal place, a tie rounded half-up.
C17_PercentageRoundedHalfUp ==
    (pc = "done" /\ call.fn = "dist") =>
        \A n \in 1..Len(ret) :
            ret[n].Percentage = RoundHalfUp(1000 * ret[n].Count, Len(call.arg))

RECURSIVE SumPercentages(_)
SumPercentages(d) ==
    IF d = <<>> THEN 0 ELSE Head(d).Percentage + SumPercentages(Tail(d))

\* |x|
Abs(x) == IF x < 0 THEN 0 - x ELSE x

\* C18: the percentages of the entries of a non-empty score list sum to 100
\* up to rounding: the sum differs from 100 by at most 0.05 times the number
\* of entries, so by at most 0.25 (in tenths of a percent: twice the
\* difference is at most the number of entries, at most 5).
C18_PercentagesSumTo100 ==
    (pc = "done" /\ call.fn = "dist") =>
        /\ 2 * Abs(SumPercentages(ret) - 1000) <= Len(ret)
        /\ 2 * Abs(SumPercentages(ret) - 1000) <= 5

\* three scores 1, 2, 3: 33.3 + 33.3 + 33.3 = 99.9
C18_Witness ==
    /\ pc = "done"
    /\ call.fn = "dist"
    /\ call.arg = <<3, 1, 2>>
    /\ Len(ret) = 3
    /\ SumPercentages(ret) = 999

-----------------------------------------------------------------------------
(* main() of app7.py: one run of the script over the uploaded table and the *)
(* widgets' values                                                          *)

\* timestamps are milliseconds since the start of day 0
OneSecond == 1000

OneDay == 24 * 60 * 60 * OneSecond

\* Timestamp.date(), as a day number
DateOf(ts) == ts \div OneDay

\* pd.to_datetime(from_date)
FromTimestamp(d) == d * OneDay

\* pd.to_datetime(to_date) + pd.Timedelta(days=1) - pd.Timedelta(seconds=1)
ToTimestamp(d) == d * OneDay + OneDay - OneSecond

\* a plausible slip: the missing value left as it is (isin without fillna)
FillNaOmitted(v) == v

\* Series.fillna("nan") on one value
FillNa(v) == IF IsNa(v) THEN "nan" ELSE v

\* get_sorted_unique_values: the values of a categorical column that are not
\* missing, and "nan" (their sorted order only orders the widget's options)
GetSortedUniqueValues(values) ==
    {values[i] : i \in {n \in 1..Len(values) : ~IsNa(values[n])}} \cup {"nan"}

\* app6.py: the options of a column, without "nan"
GetSortedUniqueValuesApp6(values) ==
    {values[i] : i \in {n \in 1..Len(values) : ~IsNa(values[n])}}

\* app6.py: the mask of one row, isin() without fillna(): a missing value is
\* in no selection
MaskApp6(row, from_ts, to_ts, sel_ys, sel_g, sel_b, sel_s) ==
    /\ row.Timestamp >= from_ts
    /\ row.Timestamp <= to_ts
    /\ ~IsNa(row.YearSem) /\ row.YearSem \in sel_ys
    /\ ~IsNa(row.Gender) /\ row.Gender \in sel_g
    /\ ~IsNa(row.Branch) /\ row.Branch \in sel_b
    /\ ~IsNa(row.Section) /\ row.Section \in sel_s

\* a plausible slip: the section type predicate left out
MaskNoSection(row, from_ts, to_ts, sel_ys, sel_g, sel_b, sel_s) ==
    /\ row.Timestamp >= from_ts
    /\ row.Timestamp <= to_ts
    /\ FillNa(row.YearSem) \in sel_ys
    /\ FillNa(row.Gender) \in sel_g
    /\ FillNa(row.Branch) \in sel_b

\* the mask of one row
Mask(row, from_ts, to_ts, sel_ys, sel_g, sel_b, sel_s) ==
    /\ row.Timestamp >= from_ts
    /\ row.Timestamp <= to_ts
    /\ FillNa(row.YearSem) \in sel_ys
    /\ FillNa(row.Gender) \in sel_g
    /\ FillNa(row.Branch) \in sel_b
    /\ FillNa(row.Section) \in sel_s

\* a plausible slip: the passing rows collected last row first
LocReversed(t, from_ts, to_ts, sel_ys, sel_g, sel_b, sel_s) ==
    LET Passes(i) == Mask(t.rows[i], from_ts, to_ts, sel_ys, sel_g, sel_b, sel_s)
        n == Len(t.rows)
    IN  SelectSeq([i \in 1..n |-> n + 1 - i], Passes)

\* df.loc[mask]: the index labels of the rows whose mask is true, in order
Loc(t, from_ts, to_ts, sel_ys, sel_g, sel_b, sel_s) ==
    LET Passes(i) == Mask(t.rows[i], from_ts, to_ts, sel_ys, sel_g, sel_b, sel_s)
    IN  SelectSeq([i \in 1..Len(t.rows) |-> i], Passes)

\* a plausible slip: the scores calculated over df instead of filtered_df
TakeUnfiltered(t, idx) == t

\* the table filtered_df names: the rows of t with the index labels idx
Take(t, idx) ==
    [columns |-> t.columns, rows |-> [n \in 1..Len(idx) |-> t.rows[idx[n]]]]

\* a plausible slip: the rate taken over the whole table
TotalResponsesUnfiltered(t, idx) == Len(t.rows)

\* a plausible slip: a counter kept between runs and added to
TotalResponsesCarried(t, idx) == total_responses + Len(idx)

\* total_responses = len(filtered_df)
TotalResponses(t, idx) == Len(idx)

\* one entry of scores_data: round(avg_score, 2) in hundredths, the number of
\* responses, round(n / total_responses * 100, 1) in tenths of a percent
ScoresRow(avg_score, scores, total) ==
    [average |-> Round(FloatDiv(avg_score[1], avg_score[2]), 2),
     responses |-> Len(scores),
     rate |-> Round(FloatMul(FloatDiv(Len(scores), total), 100), 1)]

\* main() from line 217 on, for the filtered rows idx: the warning branch
\* when no subject has a score, the report otherwise; a division by zero in
\* line 230 raises ZeroDivisionError, which the except clause of line 317
\* turns into the error message before scores_data is assigned
Report(t, idx) ==
    CHOOSE out \in
        {[filtered_df |-> idx,
          average_scores |-> result[1],
          subject_scores |-> result[2],
          total_responses |-> TotalResponses(t, idx),
          scores_data |->
             IF DOMAIN result[1] # {} /\ TotalResponses(t, idx) # 0
             THEN [k \in DOMAIN result[1] |->
                      ScoresRow(result[1][k], result[2][k], TotalResponses(t, idx))]
             ELSE EmptyDict,
          dist_df |->
             IF DOMAIN result[1] # {} /\ TotalResponses(t, idx) # 0
             THEN [k \in DOMAIN result[1] |->
                      SortEntries(DistDf(result[2][k]), "score")]
             ELSE EmptyDict,
          view |-> IF DOMAIN result[1] = {} THEN "nodata"
                   ELSE IF TotalResponses(t, idx) = 0 THEN "error"
                   ELSE "report"] :
            result \in {CalculateAverageScores(Take(t, idx))}} : TRUE

\* the values main() computes from the table and the widgets
Main(t, fd, td, sel_ys, sel_g, sel_b, sel_s) ==
    CHOOSE out \in
        {Report(t, idx) :
            idx \in {Loc(t, FromTimestamp(fd), ToTimestamp(td),
                         sel_ys, sel_g, sel_b, sel_s)}} : TRUE

\* a rerun of the script: every output is computed anew
Rerun(t, fd, td, sel_ys, sel_g, sel_b, sel_s) ==
    \E out \in {Main(t, fd, td, sel_ys, sel_g, sel_b, sel_s)} :
        /\ df' = t
        /\ from_date' = fd
        /\ to_date' = td
        /\ selected_year_semesters' = sel_ys
        /\ selected_genders' = sel_g
        /\ selected_branches' = sel_b
        /\ selected_section_types' = sel_s
        /\ filtered_df' = out.filtered_df
        /\ average_scores' = out.average_scores
        /\ subject_scores' = out.subject_scores
        /\ total_responses' = out.total_responses
        /\ scores_data' = out.scores_data
        /\ dist_df' = out.dist_df
        /\ view' = out.view
        /\ UNCHANGED workers

-----------------------------------------------------------------------------
(* Spec: a session of app7.py *)

\* bound: the most rows of an uploaded table
MaxUploadRows == 2

LastSecond == OneDay - OneSecond

\* the respondents uploaded tables are made of: their columns are the
\* PooledColumns
Respondents ==
    {[Timestamp |-> 0, YearSem |-> "III-I", Gender |-> "Male", Branch |-> "CSE",
      Section |-> "Regular", cells |-> <<"Excellent", "Good", "Good">>],
     [Timestamp |-> OneDay + LastSecond, YearSem |-> "III-I", Gender |-> NaN,
      Branch |-> "CSE", Section |-> "Regular", cells |-> <<"Good", NaN, "Good">>],
     [Timestamp |-> LastSecond + 500, YearSem |-> NaN, Gender |-> "Male",
      Branch |-> NaN, Section |-> "Regular", cells |-> <<NaN, "N/A", "Good">>],
     [Timestamp |-> OneDay, YearSem |-> "III-I", Gender |-> "Female", Branch |-> "CSE",
      Section |-> NaN, cells |-> <<"Fair", NaN, "Good">>]}

UploadTables ==
    {[columns |-> PooledColumns, rows |-> rs] :
        rs \in SeqsUpTo(Respondents, MaxUploadRows) \ {<<>>}}

Timestamps(t) == {t.rows[i].Timestamp : i \in 1..Len(t.rows)}

Min(S) == CHOOSE x \in S : \A y \in S : x <= y

Max(S) == CHOOSE x \in S : \A y \in S : x >= y

\* df['Timestamp'].min().date() and .max().date()
MinDate(t) == DateOf(Min(Timestamps(t)))

MaxDate(t) == DateOf(Max(Timestamps(t)))

YearSemOptions(t) == GetSortedUniqueValues(ColumnValues(t, 2))

GenderOptions(t) == GetSortedUniqueValues(ColumnValues(t, 3))

BranchOptions(t) == GetSortedUniqueValues(ColumnValues(t, 4))

SectionTypeOptions(t) == GetSortedUniqueValues(ColumnValues(t, 5))

\* the days the date widgets are moved to: those the table spans
DateChoices(t) == IF t.rows = <<>> THEN {} ELSE MinDate(t)..MaxDate(t)

\* A \ {v} if v is selected, A \cup {v} if it is not
Toggle(A, v) == IF v \in A THEN A \ {v} ELSE A \cup {v}

Init == PureIdle /\ AppIdle

\* a file is uploaded: the widgets show their defaults (the dates the first
\* and last day of the table, the multiselects nothing, none being given a
\* default) and the script runs
Upload(t) ==
    /\ df = NoTable
    /\ Rerun(t, MinDate(t), MaxDate(t), {}, {}, {}, {})
    /\ uploads' = uploads + 1
    /\ UNCHANGED pureVars

\* the user picks another "From Date" among the days of the table
SetFromDate(d) ==
    /\ df # NoTable
    /\ d # from_date
    /\ Rerun(df, d, to_date, selected_year_semesters, selected_genders,
             selected_branches, selected_section_types)
    /\ UNCHANGED <<uploads, pureVars>>

SetToDate(d) ==
    /\ df # NoTable
    /\ d # to_date
    /\ Rerun(df, from_date, d, selected_year_semesters, selected_genders,
             selected_branches, selected_section_types)
    /\ UNCHANGED <<uploads, pureVars>>

\* the user adds an option to a multiselect or removes one from it
ToggleYearSemester(v) ==
    /\ df # NoTable
    /\ Rerun(df, from_date, to_date, Toggle(selected_year_semesters, v),
             selected_genders, selected_branches, selected_section_types)
    /\ UNCHANGED <<uploads, pureVars>>

ToggleGender(v) ==
    /\ df # NoTable
    /\ Rerun(df, from_date, to_date, selected_year_semesters,
             Toggle(selected_genders, v), selected_branches, selected_section_types)
    /\ UNCHANGED <<uploads, pureVars>>

ToggleBranch(v) ==
    /\ df # NoTable
    /\ Rerun(df, from_date, to_date, selected_year_semesters, selected_genders,
             Toggle(selected_branches, v), selected_section_types)
    /\ UNCHANGED <<uploads, pureVars>>

ToggleSectionType(v) ==
    /\ df # NoTable
    /\ Rerun(df, from_date, to_date, selected_year_semesters, selected_genders,
             selected_branches, Toggle(selected_section_types, v))
    /\ UNCHANGED <<uploads, pureVars>>

Next ==
    \/ \E t \in UploadTables : Upload(t)
    \/ \E d \in DateChoices(df) : SetFromDate(d)
    \/ \E d \in DateChoices(df) : SetToDate(d)
    \/ \E v \in YearSemOptions(df) : ToggleYearSemester(v)
    \/ \E v \in GenderOptions(df) : ToggleGender(v)
    \/ \E v \in BranchOptions(df) : ToggleBranch(v)
    \/ \E v \in SectionTypeOptions(df) : ToggleSectionType(v)

Spec == Init /\ [][Next]_vars

-----------------------------------------------------------------------------
(* SpecReupload: a session of app7.py in which the file is replaced *)

\* bound: the most rows of a table in a session with several uploads
MaxReuploadRows == 2

\* bound: the most uploads of a session
MaxUploads == 2

\* the respondents of these tables: one of day 0, one of day 1
ReuploadRespondents ==
    {r \in Respondents : r.YearSem = "III-I" /\ r.Section = "Regular"}

ReuploadTables ==
    {[columns |-> PooledColumns, rows |-> rs] :
        rs \in SeqsUpTo(ReuploadRespondents, MaxReuploadRows) \ {<<>>}}

\* the value a widget shows in the run after the file was replaced: a widget
\* built with the same default and options as in the run before keeps the
\* user's value, any other starts at its default
Kept(same, value, default) == IF df # NoTable /\ same THEN value ELSE default

\* a file is uploaded, the first or a replacement, and the script runs
Reupload(t) ==
    /\ uploads < MaxUploads
    /\ t # df
    /\ Rerun(t,
             Kept(MinDate(t) = MinDate(df), from_date, MinDate(t)),
             Kept(MaxDate(t) = MaxDate(df), to_date, MaxDate(t)),
             Kept(YearSemOptions(t) = YearSemOptions(df), selected_year_semesters, {}),
             Kept(GenderOptions(t) = GenderOptions(df), selected_genders, {}),
             Kept(BranchOptions(t) = BranchOptions(df), selected_branches, {}),
             Kept(SectionTypeOptions(t) = SectionTypeOptions(df),
                  selected_section_types, {}))
    /\ uploads' = uploads + 1
    /\ UNCHANGED pureVars

NextReupload ==
    \/ \E t \in ReuploadTables : Reupload(t)
    \/ \E d \in DateChoices(df) : SetFromDate(d)
    \/ \E d \in DateChoices(df) : SetToDate(d)
    \/ \E v \in YearSemOptions(df) : ToggleYearSemester(v)
    \/ \E v \in GenderOptions(df) : ToggleGender(v)
    \/ \E v \in BranchOptions(df) : ToggleBranch(v)
    \/ \E v \in SectionTypeOptions(df) : ToggleSectionType(v)

SpecReupload == Init /\ [][NextReupload]_vars

-----------------------------------------------------------------------------
(* SpecConc: concurrent invocations of the filter and the aggregation of   *)
(* app7.py (lines 206-217) on one uploaded table, each with its own dates  *)
(* and selections, interleaved statement by statement                      *)

\* bound: the number of concurrent invocations
NumWorkers == 2

\* the tables shared: the respondent of day 0 00:00:00 and another one
ConcTables ==
    {[columns |-> PooledColumns, rows |-> <<r, q>>] :
        r \in {x \in Respondents : x.Timestamp = 0},
        q \in {x \in Respondents : x.Timestamp # 0}}

\* the dates and selections of an invocation: everything selected, only
\* "Male" selected, only the first day
CriteriaChoices(t) ==
    LET all == [from_date |-> MinDate(t), to_date |-> MaxDate(t),
                selected_year_semesters |-> YearSemOptions(t),
                selected_genders |-> GenderOptions(t),
                selected_branches |-> BranchOptions(t),
                selected_section_types |-> SectionTypeOptions(t)]
    IN  {all,
         [all EXCEPT !.selected_genders = {"Male"}],
         [all EXCEPT !.to_date = MinDate(t)]}

\* the local variables of an invocation before its first statement
WorkerStart(criteria) ==
    [criteria |-> criteria, pc |-> "mask", j |-> 1, filtered_df |-> <<>>,
     accumulated_scores |-> EmptyDict, result |-> None]

InitConc ==
    /\ call \in {[fn |-> "concurrent", arg |-> t] : t \in ConcTables}
    /\ ret = None
    /\ pc = "call"
    /\ df = call.arg
    /\ workers \in [1..NumWorkers -> {WorkerStart(c) : c \in CriteriaChoices(call.arg)}]
    /\ from_date = 0
    /\ to_date = 0
    /\ selected_year_semesters = {}
    /\ selected_genders = {}
    /\ selected_branches = {}
    /\ selected_section_types = {}
    /\ filtered_df = <<>>
    /\ average_scores = EmptyDict
    /\ subject_scores = EmptyDict
    /\ total_responses = 0
    /\ scores_data = EmptyDict
    /\ dist_df = EmptyDict
    /\ view = "upload"
    /\ uploads = 1

\* what the statements of an invocation leave alone: the shared table and
\* everything of the session
sharedVars ==
    <<call, ret, pc, df, from_date, to_date, selected_year_semesters,
      selected_genders, selected_branches, selected_section_types, filtered_df,
      average_scores, subject_scores, total_responses, scores_data, dist_df,
      view, uploads>>

\* a plausible slip: one dict at module level that every invocation extends
SharedAccumulated(p) == workers[1].accumulated_scores

\* the dict the loop of invocation p extends: its own local accumulated_scores
WorkerAccumulated(p) == workers[p].accumulated_scores

\* lines 206-214: the mask and filtered_df of invocation p
WorkerMask(p) ==
    /\ workers[p].pc = "mask"
    /\ workers' =
         [workers EXCEPT ![p] =
            [@ EXCEPT !.filtered_df =
                          Loc(df, FromTimestamp(workers[p].criteria.from_date),
                              ToTimestamp(workers[p].criteria.to_date),
                              workers[p].criteria.selected_year_semesters,
                              workers[p].criteria.selected_genders,
                              workers[p].criteria.selected_branches,
                              workers[p].criteria.selected_section_types),
                      !.pc = "columns"]]
    /\ UNCHANGED sharedVars

\* lines 57-67: one pass of the loop over df.columns in invocation p
WorkerColumn(p) ==
    /\ workers[p].pc = "columns"
    /\ workers[p].j <= Len(DfColumns(df))
    /\ workers' =
         [workers EXCEPT ![p] =
            [@ EXCEPT !.accumulated_scores =
                          IF SubjectNames["app7"][DfColumns(df)[workers[p].j]] = Excluded
                          THEN WorkerAccumulated(p)
                          ELSE AddColumn("app7", WorkerAccumulated(p),
                                   SubjectNames["app7"][DfColumns(df)[workers[p].j]],
                                   ValidScores("app7",
                                       Take(df, workers[p].filtered_df), workers[p].j)),
                      !.j = @ + 1]]
    /\ UNCHANGED sharedVars

\* lines 69-74: the second loop and the return of invocation p
WorkerAverages(p) ==
    /\ workers[p].pc = "columns"
    /\ workers[p].j > Len(DfColumns(df))
    /\ workers' =
         [workers EXCEPT ![p] =
            [@ EXCEPT !.result = Averages(WorkerAccumulated(p)), !.pc = "done"]]
    /\ UNCHANGED sharedVars

NextConc ==
    \E p \in 1..NumWorkers : WorkerMask(p) \/ WorkerColumn(p) \/ WorkerAverages(p)

SpecConc == InitConc /\ [][NextConc]_vars

-----------------------------------------------------------------------------
(* Claims about a session of app7.py *)

\* the index labels in filtered_df
FilteredRows == {filtered_df[n] : n \in 1..Len(filtered_df)}

\* the number of cells of the filtered rows that hold a canonical label in a
\* column whose header yields key k
SurvivingScores(k) ==
    Cardinality({c \in FilteredRows \X (1..Len(DfColumns(df))) :
                    /\ SubjectNameOf(DfColumns(df)[c[2]]) = k
                    /\ ColumnValues(df, c[2])[c[1]] \in CanonicalLabels})

\* C3: the response rate reported for a subject is the number of its
\* surviving scores divided by the number of rows that passed the filter
\* (shown as a percentage rounded to one decimal), whatever the number of rows
\* of the uploaded table and the subject's own number of scores are.
C3_RateOverFilteredRows ==
    view = "report" =>
        \A k \in DOMAIN scores_data :
            /\ scores_data[k].responses = SurvivingScores(k)
            /\ scores_data[k].rate =
                   Round(FloatMul(FloatDiv(SurvivingScores(k), Len(filtered_df)), 100), 1)

\* of two uploaded rows the one that rated a single DBMS column passed the
\* filter: 1 score over 1 filtered row, 100.0 %, where the whole table would
\* give 50.0 %
C3_Witness ==
    /\ view = "report"
    /\ Len(df.rows) = 2
    /\ Len(filtered_df) = 1
    /\ df.rows[filtered_df[1]].cells = <<"Good", NaN, "Good">>
    /\ scores_data[KeyDBMS].responses = 1
    /\ scores_data[KeyDBMS].rate = 1000

\* C4: every reported response rate lies in [0, 1]: a subject's number of
\* scores never exceeds the number of filtered rows, also when several columns
\* are pooled under one key.
C4_RateAtMostOne ==
    view = "report" =>
        \A k \in DOMAIN scores_data :
            /\ scores_data[k].responses <= total_responses
            /\ scores_data[k].rate >= 0
            /\ scores_data[k].rate <= 1000

\* C10: a row of the uploaded table is in filtered_df if and only if its
\* timestamp lies in the interval the two dates give (lines 184-185) and, in
\* each of year/semester, gender, branch and section type, its value (a
\* missing one counted as "nan") is in the dimension's selection; nothing
\* else of the row decides.
C10_PassesIffAllPredicates ==
    df # NoTable =>
        \A i \in 1..Len(df.rows) :
            LET row == df.rows[i]
                Value(v) == IF v = NaN THEN "nan" ELSE v
            IN  (i \in FilteredRows) <=>
                    /\ from_date * OneDay <= row.Timestamp
                    /\ row.Timestamp <= to_date * OneDay + OneDay - OneSecond
                    /\ Value(row.YearSem) \in selected_year_semesters
                    /\ Value(row.Gender) \in selected_genders
                    /\ Value(row.Branch) \in selected_branches
                    /\ Value(row.Section) \in selected_section_types

\* two rows in the date range that agree with the selection in year/semester,
\* gender and branch: the one whose section type is selected passed, the one
\* whose section type is not was excluded
C10_Witness ==
    /\ df # NoTable
    /\ Len(df.rows) = 2
    /\ df.rows[1].Section = "Regular"
    /\ df.rows[2].Section = NaN
    /\ from_date = 0
    /\ to_date = 1
    /\ selected_year_semesters = {"III-I"}
    /\ selected_genders = {"Male", "Female"}
    /\ selected_branches = {"CSE"}
    /\ selected_section_types = {"Regular"}
    /\ df.rows[1].Gender = "Male"
    /\ df.rows[2].Gender = "Female"
    /\ filtered_df = <<1>>

\* the row passes the four categorical predicates under the current selection
PassesCategories(row) ==
    /\ (IF row.YearSem = NaN THEN "nan" ELSE row.YearSem) \in selected_year_semesters
    /\ (IF row.Gender = NaN THEN "nan" ELSE row.Gender) \in selected_genders
    /\ (IF row.Branch = NaN THEN "nan" ELSE row.Branch) \in selected_branches
    /\ (IF row.Section = NaN THEN "nan" ELSE row.Section) \in selected_section_types

\* C11: a row that passes the categorical predicates is in filtered_df if and
\* only if the calendar day of its timestamp lies between the "from" day and
\* the "to" day inclusive, whatever its time of day, down to fractions of the
\* last second of the "to" day.
C11_DatePredicateIsDayRange ==
    df # NoTable =>
        \A i \in 1..Len(df.rows) :
            PassesCategories(df.rows[i]) =>
                ((i \in FilteredRows) <=>
                    (from_date <= DateOf(df.rows[i].Timestamp)
                        /\ DateOf(df.rows[i].Timestamp) <= to_date))

\* C12: a row whose value in a categorical column is missing passes that
\* column's predicate if and only if "nan" is in the column's selection: it
\* is excluded while "nan" is not selected, included (the other predicates
\* passing) once it is, and "nan" is always among the column's options.
C12_MissingIsSentinel ==
    df # NoTable =>
        /\ "nan" \in YearSemOptions(df) \cap GenderOptions(df)
                        \cap BranchOptions(df) \cap SectionTypeOptions(df)
        /\ \A i \in 1..Len(df.rows) :
              LET row == df.rows[i]
                  InRange == /\ from_date * OneDay <= row.Timestamp
                             /\ row.Timestamp <= to_date * OneDay + OneDay - OneSecond
                  Sel(v, selected) == IF v = NaN THEN "nan" \in selected
                                      ELSE v \in selected
              IN  (i \in FilteredRows) <=>
                      /\ InRange
                      /\ Sel(row.YearSem, selected_year_semesters)
                      /\ Sel(row.Gender, selected_genders)
                      /\ Sel(row.Branch, selected_branches)
                      /\ Sel(row.Section, selected_section_types)

\* the respondent without a gender is shown once "nan" has been added to the
\* gender selection
C12_Witness ==
    /\ df # NoTable
    /\ Len(df.rows) = 1
    /\ df.rows[1].Gender = NaN
    /\ selected_genders = {"nan"}
    /\ selected_year_semesters = {"III-I"}
    /\ selected_branches = {"CSE"}
    /\ selected_section_types = {"Regular"}
    /\ filtered_df = <<1>>

\* the filter state nobody has touched: the dates the table spans and the
\* selections the multiselects start with (none is given a default)
Unmodified ==
    /\ df # NoTable
    /\ from_date = MinDate(df)
    /\ to_date = MaxDate(df)
    /\ selected_year_semesters = {}
    /\ selected_genders = {}
    /\ selected_branches = {}
    /\ selected_section_types = {}

\* app6.py: filtered_df in its unmodified filter state, every multiselect
\* starting with all of its options
DefaultFilteredApp6(t) ==
    LET Passes(i) ==
            MaskApp6(t.rows[i], FromTimestamp(MinDate(t)), ToTimestamp(MaxDate(t)),
                     GetSortedUniqueValuesApp6(ColumnValues(t, 2)),
                     GetSortedUniqueValuesApp6(ColumnValues(t, 3)),
                     GetSortedUniqueValuesApp6(ColumnValues(t, 4)),
                     GetSortedUniqueValuesApp6(ColumnValues(t, 5)))
    IN  SelectSeq([i \in 1..Len(t.rows) |-> i], Passes)

\* C13: in the unmodified filter state filtered_df is the whole uploaded
\* table, rows with missing categorical values included (in app7.py, and in
\* app6.py with its defaults).
C13_DefaultsFilterNothing ==
    Unmodified =>
        /\ filtered_df = [i \in 1..Len(df.rows) |-> i]
        /\ DefaultFilteredApp6(df) = [i \in 1..Len(df.rows) |-> i]

\* C14: while the selection of any one categorical column is empty,
\* filtered_df has no row, whatever the dates and the other selections, and
\* the script ends in its ordinary "no data" branch.
C14_EmptySelectionNoRows ==
    (df # NoTable /\ \/ selected_year_semesters = {}
                     \/ selected_genders = {}
                     \/ selected_branches = {}
                     \/ selected_section_types = {}) =>
        /\ filtered_df = <<>>
        /\ total_responses = 0
        /\ view = "nodata"

\* everything but a section type is selected for a row in the date range:
\* no row is shown
C14_Witness ==
    /\ df # NoTable
    /\ Len(df.rows) = 1
    /\ df.rows[1].Section = "Regular"
    /\ selected_year_semesters = {"III-I"}
    /\ selected_genders = {"Male"}
    /\ selected_branches = {"CSE"}
    /\ selected_section_types = {}
    /\ from_date = 0
    /\ to_date = 0
    /\ df.rows[1].Timestamp = 0
    /\ filtered_df = <<>>
    /\ view = "nodata"

\* C15: filtered_df is a sub-sequence of the rows of the table: its index
\* labels are labels of the table, none occurs twice, and they come in the
\* table's order.
C15_FilteredIsSubsequence ==
    df # NoTable =>
        /\ \A n \in 1..Len(filtered_df) : filtered_df[n] \in 1..Len(df.rows)
        /\ \A m, n \in 1..Len(filtered_df) : m < n => filtered_df[m] < filtered_df[n]

\* both rows of a table passed and are listed in the table's order
C15_Witness ==
    /\ df # NoTable
    /\ Len(df.rows) = 2
    /\ df.rows[1] # df.rows[2]
    /\ filtered_df = <<1, 2>>

\* the rows of df that pass the mask under the dates and selections shown
PassingRows ==
    {i \in 1..Len(df.rows) :
        /\ from_date * OneDay <= df.rows[i].Timestamp
        /\ df.rows[i].Timestamp <= to_date * OneDay + OneDay - OneSecond
        /\ PassesCategories(df.rows[i])}

\* the scores of subject k in the rows idx of df, column after column
ScoresFromScratch(k, idx) == PooledScores(Take(df, idx), "app7", k, 1)

\* the subjects of df with a score in the rows idx
SubjectsFromScratch(idx) ==
    {k \in {SubjectNameOf(DfColumns(df)[j]) : j \in 1..Len(DfColumns(df))} \ {Excluded} :
        ScoresFromScratch(k, idx) # <<>>}

\* C19: after any sequence of uploads and filter changes, what is reported is
\* the aggregation of the table now loaded under the dates and selections now
\* shown, computed from scratch: the filtered rows, the subjects, their score
\* lists, means, numbers of responses and rates owe nothing to earlier tables,
\* criteria or results.
C19_FreshRecomputation ==
    df # NoTable =>
        /\ FilteredRows = PassingRows
        /\ Len(filtered_df) = Cardinality(PassingRows)
        /\ total_responses = Cardinality(PassingRows)
        /\ DOMAIN subject_scores = SubjectsFromScratch(filtered_df)
        /\ DOMAIN average_scores = SubjectsFromScratch(filtered_df)
        /\ DOMAIN scores_data = SubjectsFromScratch(filtered_df)
        /\ view = (IF SubjectsFromScratch(filtered_df) = {} THEN "nodata" ELSE "report")
        /\ \A k \in SubjectsFromScratch(filtered_df) :
              LET scores == ScoresFromScratch(k, filtered_df)
              IN  /\ subject_scores[k] = scores
                  /\ average_scores[k] = Frac(Sum(scores), Len(scores))
                  /\ scores_data[k].responses = Len(scores)
                  /\ scores_data[k].average =
                         Round(FloatDiv(Sum(scores), Len(scores)), 2)
                  /\ scores_data[k].rate =
                         Round(FloatMul(FloatDiv(Len(scores), Cardinality(PassingRows)), 100), 1)

\* the second file of a session is loaded and its one respondent selected:
\* the report shows that respondent's two scores and nothing of the first file
C19_Witness ==
    /\ uploads = 2
    /\ Len(df.rows) = 1
    /\ df.rows[1].Timestamp = 0
    /\ filtered_df = <<1>>
    /\ view = "report"
    /\ subject_scores[KeyDBMS] = <<5, 3>>
    /\ average_scores[KeyDBMS] = <<4, 1>>

\* what invocation p returns when it runs alone on the table
Alone(p) ==
    Main(df, workers[p].criteria.from_date, workers[p].criteria.to_date,
         workers[p].criteria.selected_year_semesters,
         workers[p].criteria.selected_genders,
         workers[p].criteria.selected_branches,
         workers[p].criteria.selected_section_types)

\* C20: however the statements of concurrent invocations interleave, an
\* invocation that has returned holds the filtered rows and the two mappings
\* it computes when it runs alone, and the shared table, its columns
\* included, is the one that was uploaded.
C20_ConcurrentAsAlone ==
    call.fn = "concurrent" =>
        /\ df = call.arg
        /\ \A p \in DOMAIN workers :
              workers[p].pc = "done" =>
                  /\ workers[p].filtered_df = Alone(p).filtered_df
                  /\ workers[p].result =
                         <<Alone(p).average_scores, Alone(p).subject_scores>>

\* the second invocation ran from its mask to its return while the first was
\* inside its loop, each with other criteria and other filtered rows
C20_Witness ==
    /\ call.fn = "concurrent"
    /\ workers[1].pc = "columns"
    /\ workers[1].accumulated_scores # EmptyDict
    /\ workers[1].j <= Len(DfColumns(df))
    /\ workers[2].pc = "done"
    /\ workers[2].result[2] # EmptyDict
    /\ workers[1].criteria # workers[2].criteria
    /\ workers[1].filtered_df # workers[2].filtered_df

\* the rating cells of the filtered rows hold no rating label
NoValidScore ==
    \A i \in FilteredRows : \A j \in 1..Len(DfColumns(df)) :
        SubjectNameOf(DfColumns(df)[j]) # Excluded =>
            ColumnValues(df, j)[i] \notin CanonicalLabels

\* C21: when no subject has a valid score in the filtered rows, also when no
\* row is left, both mappings are empty and the script ends in the "no data"
\* branch, not in the error branch.
C21_NoScoresNoData ==
    (df # NoTable /\ NoValidScore) =>
        /\ average_scores = EmptyDict
        /\ subject_scores = EmptyDict
        /\ scores_data = EmptyDict
        /\ view = "nodata"

\* of two respondents only the first is selected, who left DBMS blank in one
\* column and wrote "N/A" in the other: no subject, "no data"
C21_Witness ==
    /\ df # NoTable
    /\ Len(df.rows) = 2
    /\ df.rows[1].cells = <<NaN, "N/A", "Good">>
    /\ df.rows[2].cells = <<"Good", NaN, "Good">>
    /\ filtered_df = <<1>>
    /\ average_scores = EmptyDict
    /\ view = "nodata"

RECURSIVE CellScores(_, _)
\* the scores of the rating labels in the c-th cell of the filtered rows from
\* the n-th on
CellScores(c, n) ==
    IF n > Len(filtered_df) THEN <<>>
    ELSE (IF df.rows[filtered_df[n]].cells[c] \in CanonicalLabels
          THEN <<rating_to_score[df.rows[filtered_df[n]].cells[c]]>> ELSE <<>>)
         \o CellScores(c, n + 1)

\* C24: which key a header maps to does not depend on the rows or the filter:
\* in every run over the columns of the uploaded tables "Subject [DBMS]" and
\* "Subjects [ dbms ]" feed the key DBMS and nothing else, and "Name" and the
\* filter columns feed no key, whatever their cells hold; rows and filters
\* only decide whether DBMS has scores.
C24_HeaderKeysFixed ==
    (df # NoTable /\ df.columns = PooledColumns) =>
        /\ DOMAIN subject_scores \subseteq {KeyDBMS}
        /\ DOMAIN average_scores = DOMAIN subject_scores
        /\ (KeyDBMS \in DOMAIN subject_scores) <=>
               (CellScores(1, 1) \o CellScores(2, 1) # <<>>)
        /\ (KeyDBMS \in DOMAIN subject_scores) =>
               subject_scores[KeyDBMS] = CellScores(1, 1) \o CellScores(2, 1)

\* of two respondents only the second is selected: DBMS has that one score,
\* and the "Good" in the "Name" column counts for nothing
C24_Witness ==
    /\ df # NoTable
    /\ Len(df.rows) = 2
    /\ df.rows[1].cells = <<"Excellent", "Good", "Good">>
    /\ df.rows[2].cells = <<"Fair", NaN, "Good">>
    /\ filtered_df = <<2>>
    /\ DOMAIN subject_scores = {KeyDBMS}
    /\ subject_scores[KeyDBMS] = <<2>>

\* C26: the response rate is never divided by zero: whenever a subject is
\* reported at least one row passed the filter, and the script never ends in
\* its error branch.
C26_NoZeroDenominator ==
    /\ view # "error"
    /\ average_scores # EmptyDict => total_responses >= 1

\* one row passed the filter and DBMS is reported with its two scores
C26_Witness ==
    /\ view = "report"
    /\ total_responses = 1
    /\ average_scores # EmptyDict
    /\ scores_data[KeyDBMS].responses = 2

====
